---- MODULE Spec2Model ----
(***************************************************************************)
(* Model of the dashboard-commerce admin pages:                            *)
(*   - the product-creation form (option groups, options, variant          *)
(*     generation),                                                         *)
(*   - the draft-order page (mutations against the remote admin API),      *)
(*   - the listing pages (orders, products, attributes, collections).      *)
(* Strings are sequences of one-character strings, so that concatenation,  *)
(* lower-casing and character filtering are computed as the code computes  *)
(* them.                                                                    *)
(***************************************************************************)
EXTENDS Integers, Sequences, FiniteSets, TLC

VARIABLES
    form,          \* product-creation form: name, slug, optionGroups, variants
    nextId,        \* number of ids generateId() has handed out so far
    lastOp,        \* name of the handler step that ran last
    formLoading,   \* loading of the product-creation page
    submit,        \* locals of the running onSubmit, and where it awaits
    sent,          \* mutations the last onSubmit has issued, in issue order
    page,                \* the page that was opened
    mounted,             \* the page's onMounted has run
    route,               \* current route
    \* draft-order page
    draftOrder,          \* the order aggregate mirrored from the last response
    orderLoading,        \* loading
    customerModalOpen,
    shippingModalOpen,
    billingModalOpen,
    customerForm,
    shippingForm,
    billingForm,
    productSearchQuery,
    debouncePending,     \* the timer of the debounced loadProducts is running
    productsLoading,
    products,
    \* listing pages
    data,                \* rows of the table (collections on the collections page)
    totalItems,
    listLoading,         \* loading
    error,               \* <<>> is null
    pagination,
    \* remote API
    calls,               \* network calls awaiting their response, in issue order
    response,            \* the response the last step processed, if it processed one:
                         \* ok says that the handler's try block did not throw,
                         \* position is the place the call had in calls
    toast                \* the toast the last step added, if it added one

formVars == <<form, nextId>>
submitVars == <<formLoading, submit, sent>>
modalVars == <<customerModalOpen, shippingModalOpen, billingModalOpen>>
orderFormVars == <<customerForm, shippingForm, billingForm>>
draftVars == <<draftOrder, orderLoading, modalVars, orderFormVars>>
orderVars == <<mounted, route, draftVars>>
listVars == <<data, totalItems, listLoading, error, pagination>>
searchVars == <<productSearchQuery, debouncePending, productsLoading, products>>
netVars == <<calls, response, toast>>
vars == <<formVars, submitVars, lastOp, page, orderVars, searchVars, listVars, netVars>>

----------------------------------------------------------------------------
(* Bounds of the model *)

MaxGroups == 2      \* option groups in the form
MaxOptions == 2     \* options per option group
MaxIds == 4         \* ids handed out by generateId
MaxInFlight == 2    \* network calls awaiting a response at the same time
MaxTotalItems == 21 \* totalItems the remote API reports for a list
MaxNameLen == 3     \* characters of a name a slug is generated from

----------------------------------------------------------------------------
(* Strings *)

Str0 == <<>>

\* String.prototype.toLowerCase on the characters the model uses
LowerChar(c) ==
    CASE c = "A" -> "a"
      [] c = "B" -> "b"
      [] c = "M" -> "m"
      [] c = "S" -> "s"
      [] c = "T" -> "t"
      [] OTHER -> c

toLowerCase(s) == [i \in 1..Len(s) |-> LowerChar(s[i])]

\* the character class [a-z0-9]
IsAlnum(c) == c \in {"a", "b", "m", "s", "t", "0", "1"}

\* name.toLowerCase().replace(/[^a-z0-9]/g, "")
CodeOf(name) == SelectSeq(toLowerCase(name), IsAlnum)

RECURSIVE Join(_, _)
\* Array.prototype.join
Join(strs, sep) ==
    IF Len(strs) = 0 THEN Str0
    ELSE IF Len(strs) = 1 THEN strs[1]
    ELSE strs[1] \o sep \o Join(Tail(strs), sep)

\* Array.prototype.filter(Boolean) on an array of strings
NonEmptyOnly(strs) == LET NonEmpty(s) == s # Str0 IN SelectSeq(strs, NonEmpty)

\* text the user can type into the fields
ProductNames == { Str0, <<"T">> }
SlugInputs == { Str0, <<"s">> }
OptionNames == { <<"S">>, <<"M">>, <<"!">> }

StrDefault == <<"D", "e", "f", "a", "u", "l", "t">>
StrDefaultSku == <<"d", "e", "f", "a", "u", "l", "t">>
StrVariant == <<"V", "a", "r", "i", "a", "n", "t">>
StrProduct == <<"p", "r", "o", "d", "u", "c", "t">>
SepName == <<" ", "-", " ">>
SepOption == <<" ", "/", " ">>
SepSku == <<"-">>

----------------------------------------------------------------------------
(* Product-creation form *)

\* splice(index, 1)
RemoveAt(seq, i) ==
    [k \in 1..(Len(seq) - 1) |-> IF k < i THEN seq[k] ELSE seq[k + 1]]

\* generateId(): Math.random() in base 36. Ids are opaque and only compared
\* for equality; the model hands out 1, 2, 3, ... so that no id is handed out
\* twice (collisions of random ids are not modelled)
generateId == nextId + 1

InitForm ==
    [ name |-> Str0, slug |-> Str0, optionGroups |-> <<>>, variants |-> <<>> ]

\* option.name && option.code
IsValidOption(option) == option.name # Str0 /\ option.code # Str0

ValidOptions(group) == SelectSeq(group.options, IsValidOption)

\* group.options.some((option) => option.name && option.code)
HasValidOption(group) ==
    \E i \in 1..Len(group.options) : IsValidOption(group.options[i])

Selection(group, option) == [ optionGroupId |-> group.id, optionId |-> option.id ]

\* (mutant) the first group's selection is left out of the pushed entry
PrependToAll_EntryDropped(entry, restCombinations) == restCombinations

\* the inner loop: one result entry per combination of the remaining groups
PrependToAll(entry, restCombinations) ==
    [j \in 1..Len(restCombinations) |-> <<entry>> \o restCombinations[j]]

\* (mutant) the two loops nested the other way round
ForEachFirstOption_RestOuter(firstGroup, firstOptions, restCombinations) ==
    [k \in 1..(Len(firstOptions) * Len(restCombinations)) |->
        << Selection(firstGroup, firstOptions[((k - 1) % Len(firstOptions)) + 1]) >>
        \o restCombinations[((k - 1) \div Len(firstOptions)) + 1]]

RECURSIVE ForEachFirstOption(_, _, _)
\* the outer loop over the valid options of the first group
ForEachFirstOption(firstGroup, firstOptions, restCombinations) ==
    IF Len(firstOptions) = 0 THEN <<>>
    ELSE PrependToAll(Selection(firstGroup, Head(firstOptions)), restCombinations)
         \o ForEachFirstOption(firstGroup, Tail(firstOptions), restCombinations)

RECURSIVE generateCombinations(_)
generateCombinations(groups) ==
    IF Len(groups) = 0 THEN <<>>
    ELSE LET firstGroup == groups[1]
             firstOptions == ValidOptions(firstGroup)
         IN  IF Len(groups) = 1
             THEN [i \in 1..Len(firstOptions) |->
                      << Selection(firstGroup, firstOptions[i]) >>]
             ELSE ForEachFirstOption(firstGroup, firstOptions,
                                     generateCombinations(Tail(groups)))

\* Array.prototype.find: index of the first element with the id, 0 if none
FindById(seq, id) ==
    IF \E i \in 1..Len(seq) : seq[i].id = id
    THEN CHOOSE i \in 1..Len(seq) :
            /\ seq[i].id = id
            /\ \A k \in 1..(i - 1) : seq[k].id # id
    ELSE 0

\* the option a selection refers to, looked up in the form; the field asked
\* for, or "" when the group or the option is not found
LookupField(f, opt, field) ==
    LET gi == FindById(f.optionGroups, opt.optionGroupId)
    IN  IF gi = 0 THEN Str0
        ELSE LET oi == FindById(f.optionGroups[gi].options, opt.optionId)
             IN  IF oi = 0 THEN Str0
                 ELSE f.optionGroups[gi].options[oi][field]

generateVariantName(f, options) ==
    LET optionNames ==
            NonEmptyOnly([i \in 1..Len(options) |-> LookupField(f, options[i], "name")])
    IN  IF Len(optionNames) > 0
        THEN f.name \o SepName \o Join(optionNames, SepOption)
        ELSE IF f.name # Str0 THEN f.name ELSE StrVariant

\* (mutant) the sku is built from the option names instead of the codes
generateVariantSku_FromNames(f, options) ==
    LET optionCodes ==
            NonEmptyOnly([i \in 1..Len(options) |-> LookupField(f, options[i], "name")])
        baseSlug == IF f.slug # Str0 THEN f.slug ELSE StrProduct
    IN  IF Len(optionCodes) > 0
        THEN baseSlug \o SepSku \o Join(optionCodes, SepSku)
        ELSE baseSlug

generateVariantSku(f, options) ==
    LET optionCodes ==
            NonEmptyOnly([i \in 1..Len(options) |-> LookupField(f, options[i], "code")])
        baseSlug == IF f.slug # Str0 THEN f.slug ELSE StrProduct
    IN  IF Len(optionCodes) > 0
        THEN baseSlug \o SepSku \o Join(optionCodes, SepSku)
        ELSE baseSlug

VariantStub(name, sku, options) ==
    [ name |-> name, sku |-> sku, price |-> 0, stockOnHand |-> 0,
      enabled |-> TRUE, options |-> options ]

\* (mutant) the default variant always gets the fallback name
DefaultVariant_FallbackName(f) ==
    VariantStub(StrDefault, IF f.slug # Str0 THEN f.slug ELSE StrDefaultSku, <<>>)

\* the single variant of a product without option groups
DefaultVariant(f) ==
    VariantStub(IF f.name # Str0 THEN f.name ELSE StrDefault,
                IF f.slug # Str0 THEN f.slug ELSE StrDefaultSku,
                <<>>)

\* (mutant) no group is filtered out
validGroups_Unfiltered(f) == f.optionGroups

\* the option groups that have at least one valid option
validGroups(f) == SelectSeq(f.optionGroups, HasValidOption)

\* the variant list generateVariants() stores in form.variants
generateVariants(f) ==
    IF Len(f.optionGroups) = 0 THEN << DefaultVariant(f) >>
    ELSE IF Len(validGroups(f)) = 0 THEN <<>>
    ELSE LET combinations == generateCombinations(validGroups(f))
         IN  [i \in 1..Len(combinations) |->
                 VariantStub(generateVariantName(f, combinations[i]),
                             generateVariantSku(f, combinations[i]),
                             combinations[i])]

\* v-model="form.name"
SetName(n) ==
    /\ form' = [form EXCEPT !.name = n]
    /\ lastOp' = "setName"
    /\ UNCHANGED nextId
    /\ UNCHANGED <<submitVars, page, orderVars, searchVars, listVars, netVars>>

\* v-model="form.slug"
SetSlug(s) ==
    /\ form' = [form EXCEPT !.slug = s]
    /\ lastOp' = "setSlug"
    /\ UNCHANGED nextId
    /\ UNCHANGED <<submitVars, page, orderVars, searchVars, listVars, netVars>>

addOptionGroup ==
    /\ Len(form.optionGroups) < MaxGroups
    /\ nextId < MaxIds
    /\ form' = [form EXCEPT !.optionGroups =
                   Append(@, [ id |-> generateId, name |-> Str0, code |-> Str0,
                               options |-> <<>> ])]
    /\ nextId' = nextId + 1
    /\ lastOp' = "addOptionGroup"
    /\ UNCHANGED <<submitVars, page, orderVars, searchVars, listVars, netVars>>

removeOptionGroup(groupIndex) ==
    /\ groupIndex \in 1..Len(form.optionGroups)
    /\ form' = [form EXCEPT !.optionGroups = RemoveAt(@, groupIndex)]
    /\ lastOp' = "removeOptionGroup"
    /\ UNCHANGED nextId
    /\ UNCHANGED <<submitVars, page, orderVars, searchVars, listVars, netVars>>

\* group.options.some(o => o.name.toLowerCase() === optionName.toLowerCase())
OptionExists(group, optionName) ==
    \E i \in 1..Len(group.options) :
        toLowerCase(group.options[i].name) = toLowerCase(optionName)

addOptionFromInput(groupIndex, optionName) ==
    /\ groupIndex \in 1..Len(form.optionGroups)
    /\ lastOp' = "addOptionFromInput"
    /\ IF OptionExists(form.optionGroups[groupIndex], optionName)
       THEN UNCHANGED <<form, nextId>>
       ELSE /\ Len(form.optionGroups[groupIndex].options) < MaxOptions
            /\ nextId < MaxIds
            /\ form' = [form EXCEPT !.optionGroups[groupIndex].options =
                           Append(@, [ id |-> generateId, name |-> optionName,
                                       code |-> CodeOf(optionName) ])]
            /\ nextId' = nextId + 1
    /\ UNCHANGED <<submitVars, page, orderVars, searchVars, listVars, netVars>>

removeOption(groupIndex, optionIndex) ==
    /\ groupIndex \in 1..Len(form.optionGroups)
    /\ optionIndex \in 1..Len(form.optionGroups[groupIndex].options)
    /\ form' = [form EXCEPT !.optionGroups[groupIndex].options =
                   RemoveAt(@, optionIndex)]
    /\ lastOp' = "removeOption"
    /\ UNCHANGED nextId
    /\ UNCHANGED <<submitVars, page, orderVars, searchVars, listVars, netVars>>

\* generateVariants() called directly
generateVariantsCall ==
    /\ form' = [form EXCEPT !.variants = generateVariants(form)]
    /\ lastOp' = "generateVariants"
    /\ UNCHANGED nextId
    /\ UNCHANGED <<submitVars, page, orderVars, searchVars, listVars, netVars>>

----------------------------------------------------------------------------
(* Slug generation *)

\* the character class \s, on the characters the model uses
IsSpace(c) == c \in { " ", "\t" }

\* the character class [a-z0-9\s-]
IsSlugChar(c) == IsAlnum(c) \/ IsSpace(c) \/ c = "-"

\* .replace(/[^a-z0-9\s-]/g, "")
RemoveOthers(s) == SelectSeq(s, IsSlugChar)

\* a replacement of every whitespace character by a hyphen
RECURSIVE ReplaceWhitespace_EachCharacter(_)
ReplaceWhitespace_EachCharacter(s) ==
    IF s = Str0 THEN Str0
    ELSE (IF IsSpace(Head(s)) THEN <<"-">> ELSE << Head(s) >>)
             \o ReplaceWhitespace_EachCharacter(Tail(s))

\* .replace(/\s+/g, "-"): a hyphen for each maximal run of whitespace
RECURSIVE ReplaceWhitespace(_)
ReplaceWhitespace(s) ==
    IF s = Str0 THEN Str0
    ELSE IF IsSpace(Head(s))
         THEN IF Len(s) > 1 /\ IsSpace(s[2])
              THEN ReplaceWhitespace(Tail(s))
              ELSE <<"-">> \o ReplaceWhitespace(Tail(s))
         ELSE << Head(s) >> \o ReplaceWhitespace(Tail(s))

\* String.prototype.trim
RECURSIVE trim(_)
trim(s) ==
    IF s = Str0 THEN Str0
    ELSE IF IsSpace(Head(s)) THEN trim(Tail(s))
    ELSE IF IsSpace(s[Len(s)]) THEN trim(SubSeq(s, 1, Len(s) - 1))
    ELSE s

\* a slug in which the other characters become hyphens instead of vanishing
SlugOf_OthersToHyphens(name) ==
    LET Hyphenated(c) == IF IsSlugChar(c) THEN c ELSE "-" IN
    trim(ReplaceWhitespace(
        [i \in 1..Len(name) |-> Hyphenated(toLowerCase(name)[i])]))

\* the expression generateSlug assigns to form.slug
SlugOf(name) == trim(ReplaceWhitespace(RemoveOthers(toLowerCase(name))))

\* a generateSlug that extends the slug the form holds
generateSlug_Appends ==
    /\ form' = IF form.name # Str0
               THEN [form EXCEPT !.slug = form.slug \o SlugOf(form.name)]
               ELSE form
    /\ lastOp' = "generateSlug"
    /\ UNCHANGED nextId
    /\ UNCHANGED <<submitVars, page, orderVars, searchVars, listVars, netVars>>

\* generateSlug(), also the handler of the "Generate" button
generateSlug ==
    /\ form' = IF form.name # Str0
               THEN [form EXCEPT !.slug = SlugOf(form.name)]
               ELSE form
    /\ lastOp' = "generateSlug"
    /\ UNCHANGED nextId
    /\ UNCHANGED <<submitVars, page, orderVars, searchVars, listVars, netVars>>

\* a blur handler that generates over a slug the form already holds
handleNameBlur_Always ==
    /\ form' = IF form.name # Str0
               THEN [form EXCEPT !.slug = SlugOf(form.name)]
               ELSE form
    /\ lastOp' = "handleNameBlur"
    /\ UNCHANGED nextId
    /\ UNCHANGED <<submitVars, page, orderVars, searchVars, listVars, netVars>>

\* handleNameBlur(), the blur handler of the name input
handleNameBlur ==
    /\ form' = IF form.name # Str0 /\ form.slug = Str0
               THEN [form EXCEPT !.slug = SlugOf(form.name)]
               ELSE form
    /\ lastOp' = "handleNameBlur"
    /\ UNCHANGED nextId
    /\ UNCHANGED <<submitVars, page, orderVars, searchVars, listVars, netVars>>

\* characters of the names the model types: a capital, a small letter, a
\* digit, two kinds of whitespace, a hyphen and a character of no class
NameAlphabet == { "T", "s", "1", " ", "\t", "-", "!" }

\* names of at most MaxNameLen characters
SlugNames == UNION { [1..k -> NameAlphabet] : k \in 0..MaxNameLen }

\* the "Generate Variants" button, disabled while the form has no option group
generateVariantsClick ==
    /\ Len(form.optionGroups) # 0
    /\ generateVariantsCall

----------------------------------------------------------------------------
(* Forms the generator is applied to: every form of at most MaxGroups option
   groups with at most MaxOptions options each, as addOptionGroup and
   addOptionFromInput build them (distinct ids, code derived from the name,
   no two options of a group with the same lower-cased name) *)

DistinctNames(names) ==
    \A i, j \in 1..Len(names) :
        i # j => toLowerCase(names[i]) # toLowerCase(names[j])

OptionNameSeqs ==
    { names \in UNION { [1..k -> OptionNames] : k \in 0..MaxOptions } :
        DistinctNames(names) }

GroupIdAt(g) == (g - 1) * (MaxOptions + 1) + 1
OptionIdAt(g, o) == GroupIdAt(g) + o

BuildGroup(g, names) ==
    [ id |-> GroupIdAt(g), name |-> Str0, code |-> Str0,
      options |-> [o \in 1..Len(names) |->
                     [ id |-> OptionIdAt(g, o), name |-> names[o],
                       code |-> CodeOf(names[o]) ]] ]

InputForms ==
    { [ name |-> n, slug |-> s,
        optionGroups |-> [g \in 1..Len(shape) |-> BuildGroup(g, shape[g])],
        variants |-> <<>> ] :
      n \in ProductNames, s \in SlugInputs,
      shape \in UNION { [1..k -> OptionNameSeqs] : k \in 0..MaxGroups } }

----------------------------------------------------------------------------
(* Draft-order page *)

\* A value that may be null is a sequence: <<>> for null, <<x>> for x.
\* An order without id stands for null, undefined and a result that is no
\* Order (no field of the OrderDetail fragment selected).
NoOrder ==
    [ id |-> "", lines |-> {}, customer |-> <<>>,
      shippingAddress |-> <<>>, billingAddress |-> <<>> ]

EmptyCustomer ==
    [ firstName |-> "", lastName |-> "", emailAddress |-> "", phoneNumber |-> "" ]

EmptyAddress ==
    [ fullName |-> "", company |-> "", streetLine1 |-> "", streetLine2 |-> "",
      city |-> "", province |-> "", postalCode |-> "", countryCode |-> "",
      phoneNumber |-> "" ]

CompleteAddress ==
    [ fullName |-> "Ann Lee", company |-> "", streetLine1 |-> "1 Main St",
      streetLine2 |-> "", city |-> "Oslo", province |-> "Oslo",
      postalCode |-> "0150", countryCode |-> "NO", phoneNumber |-> "" ]

\* what the user can type into the customer form and the address forms
CustomerInputs ==
    { EmptyCustomer,
      [ firstName |-> "Ann", lastName |-> "Lee", emailAddress |-> "ann@x.io",
        phoneNumber |-> "" ] }

AddressInputs == { EmptyAddress, CompleteAddress }

\* product variants offered by the product search
VariantIds == { "v1", "v2" }

\* order lines the remote API may return
OrderLines ==
    { [ id |-> "l1", productVariant |-> [ id |-> "v1" ] ],
      [ id |-> "l2", productVariant |-> [ id |-> "v2" ] ] }

\* order aggregates the remote API may return
OrderAggregates ==
    { [ id |-> "o1", lines |-> lines, customer |-> rest[1],
        shippingAddress |-> rest[2], billingAddress |-> rest[3] ] :
      lines \in { {}, { [ id |-> "l1", productVariant |-> [ id |-> "v1" ] ] },
                  OrderLines },
      rest \in { << <<>>, <<>>, <<>> >>,
                 << << "c1" >>, << CompleteAddress >>, <<>> >>,
                 << << "c1" >>, << CompleteAddress >>, << CompleteAddress >> >> } }

\* data a mutation's response may carry in its result field
Payloads == OrderAggregates \cup { NoOrder }

\* the OrderStateTransitionError member of transitionOrderToState's result
TransitionError ==
    [ errorCode |-> "ORDER_STATE_TRANSITION_ERROR",
      message |-> "Cannot transition Order",
      transitionError |-> "No shipping method set",
      fromState |-> "Draft", toState |-> "ArrangingPayment" ]

\* data the response of a call may carry in its result field
ResultsOf(call) ==
    IF call.op = "transitionOrderToState"
    THEN Payloads \cup { TransitionError }
    ELSE Payloads

\* errors $apollo.mutate may throw: a response with GraphQL errors, a
\* network failure, an exception without message
ThrownErrors ==
    { [ graphQLErrors |-> << "Order is not in Draft state" >>, networkError |-> FALSE,
        message |-> "Order is not in Draft state" ],
      [ graphQLErrors |-> <<>>, networkError |-> TRUE, message |-> "Failed to fetch" ],
      [ graphQLErrors |-> <<>>, networkError |-> FALSE, message |-> "" ] }

NoResponse == [ by |-> "", ok |-> FALSE, data |-> NoOrder ]

NoToast == [ color |-> "", description |-> "" ]
Toast(color, description) == [ color |-> color, description |-> description ]

\* $apollo.mutate: the call now awaits its response
Call(by, op, variables) == [ by |-> by, op |-> op, variables |-> variables ]

OnOrderPage == page = "/orders/create" /\ mounted /\ route = page

\* a modal covers the page: its controls are the only ones that can be used
NoModalOpen == ~customerModalOpen /\ ~shippingModalOpen /\ ~billingModalOpen

\* a client that keeps the fields the response leaves empty
StoreAggregate_KeepingPrevious(previous, received) ==
    [ received EXCEPT
        !.customer = IF @ = <<>> THEN previous.customer ELSE @,
        !.shippingAddress = IF @ = <<>> THEN previous.shippingAddress ELSE @,
        !.billingAddress = IF @ = <<>> THEN previous.billingAddress ELSE @ ]

\* draftOrder.value = data?.<field>: the response's aggregate replaces the
\* mirrored one wholesale
StoreAggregate(previous, received) == received

\* onMounted: initializeDraftOrder up to its await
onMounted ==
    /\ page = "/orders/create"
    /\ ~mounted
    /\ mounted' = TRUE
    /\ orderLoading' = TRUE
    /\ calls' = Append(calls, Call("initializeDraftOrder", "createDraftOrder", <<>>))
    /\ response' = NoResponse
    /\ toast' = NoToast
    /\ UNCHANGED <<route, draftOrder, modalVars, orderFormVars>>
    /\ UNCHANGED <<formVars, submitVars, lastOp, page, listVars, searchVars>>

\* isVariantInOrder
isVariantInOrder(variantId) ==
    \E line \in draftOrder.lines : line.productVariant.id = variantId

\* an addItemToOrder without the check of the lines
addItemToOrder_WithoutLineCheck(productVariantId) ==
    /\ OnOrderPage /\ NoModalOpen
    /\ IF draftOrder.id = ""
       THEN /\ toast' = Toast("error", "No draft order available")
            /\ UNCHANGED calls
       ELSE /\ Len(calls) < MaxInFlight
            /\ calls' = Append(calls,
                   Call("addItemToOrder", "addItemToDraftOrder",
                        [ orderId |-> draftOrder.id,
                          input |-> [ productVariantId |-> productVariantId,
                                      quantity |-> 1 ] ]))
            /\ toast' = NoToast
    /\ response' = NoResponse
    /\ UNCHANGED <<orderVars, formVars, submitVars, lastOp, page, listVars, searchVars>>

\* click on a variant row: addItemToOrder up to its await
addItemToOrder(productVariantId) ==
    /\ OnOrderPage /\ NoModalOpen
    /\ IF draftOrder.id = ""
       THEN /\ toast' = Toast("error", "No draft order available")
            /\ UNCHANGED calls
       ELSE IF isVariantInOrder(productVariantId)
       THEN /\ toast' = Toast("info", "This item is already in the order")
            /\ UNCHANGED calls
       ELSE /\ Len(calls) < MaxInFlight
            /\ calls' = Append(calls,
                   Call("addItemToOrder", "addItemToDraftOrder",
                        [ orderId |-> draftOrder.id,
                          input |-> [ productVariantId |-> productVariantId,
                                      quantity |-> 1 ] ]))
            /\ toast' = NoToast
    /\ response' = NoResponse
    /\ UNCHANGED <<orderVars, formVars, submitVars, lastOp, page, listVars, searchVars>>

\* click on a line's remove button: removeItemFromOrder up to its await
removeItemFromOrder(orderLineId) ==
    /\ OnOrderPage /\ NoModalOpen
    /\ \E line \in draftOrder.lines : line.id = orderLineId
    /\ IF draftOrder.id = ""
       THEN UNCHANGED calls
       ELSE /\ Len(calls) < MaxInFlight
            /\ calls' = Append(calls,
                   Call("removeItemFromOrder", "removeDraftOrderLine",
                        [ orderId |-> draftOrder.id, orderLineId |-> orderLineId ]))
    /\ response' = NoResponse
    /\ toast' = NoToast
    /\ UNCHANGED <<orderVars, formVars, submitVars, lastOp, page, listVars, searchVars>>

\* the buttons that open a modal, and closing a modal
openModal(which) ==
    /\ OnOrderPage /\ NoModalOpen
    /\ customerModalOpen' = (which = "customer")
    /\ shippingModalOpen' = (which = "shipping")
    /\ billingModalOpen' = (which = "billing")
    /\ UNCHANGED <<mounted, route, draftOrder, orderLoading, orderFormVars>>
    /\ response' = NoResponse
    /\ toast' = NoToast
    /\ UNCHANGED <<calls, formVars, submitVars, lastOp, page, listVars, searchVars>>

closeModal ==
    /\ OnOrderPage /\ ~NoModalOpen
    /\ customerModalOpen' = FALSE
    /\ shippingModalOpen' = FALSE
    /\ billingModalOpen' = FALSE
    /\ UNCHANGED <<mounted, route, draftOrder, orderLoading, orderFormVars>>
    /\ response' = NoResponse
    /\ toast' = NoToast
    /\ UNCHANGED <<calls, formVars, submitVars, lastOp, page, listVars, searchVars>>

\* v-model of the fields of the three forms
editCustomerForm(input) ==
    /\ OnOrderPage /\ customerModalOpen
    /\ customerForm' = input
    /\ UNCHANGED <<mounted, route, draftOrder, orderLoading, modalVars>>
    /\ response' = NoResponse
    /\ toast' = NoToast
    /\ UNCHANGED <<shippingForm, billingForm, calls, formVars, submitVars, lastOp, page, listVars, searchVars>>

editShippingForm(input) ==
    /\ OnOrderPage /\ shippingModalOpen
    /\ shippingForm' = input
    /\ UNCHANGED <<mounted, route, draftOrder, orderLoading, modalVars>>
    /\ response' = NoResponse
    /\ toast' = NoToast
    /\ UNCHANGED <<customerForm, billingForm, calls, formVars, submitVars, lastOp, page, listVars, searchVars>>

editBillingForm(input) ==
    /\ OnOrderPage /\ billingModalOpen
    /\ billingForm' = input
    /\ UNCHANGED <<mounted, route, draftOrder, orderLoading, modalVars>>
    /\ response' = NoResponse
    /\ toast' = NoToast
    /\ UNCHANGED <<customerForm, shippingForm, calls, formVars, submitVars, lastOp, page, listVars, searchVars>>

\* a validation that does not look at the e-mail address
CustomerFormValid_WithoutEmail ==
    customerForm.firstName # "" /\ customerForm.lastName # ""

CustomerFormValid ==
    customerForm.firstName # "" /\ customerForm.lastName # ""
    /\ customerForm.emailAddress # ""

AddressFormValid(address) ==
    /\ address.fullName # "" /\ address.streetLine1 # ""
    /\ address.city # "" /\ address.province # ""
    /\ address.postalCode # "" /\ address.countryCode # ""

\* the part of saveCustomer / saveShippingAddress / saveBillingAddress up to
\* the await
SaveForm_WithoutOrderCheck(by, op, valid, input) ==
    /\ IF ~valid
       THEN /\ toast' = Toast("error", "Please fill in all required fields")
            /\ UNCHANGED calls
       ELSE /\ Len(calls) < MaxInFlight
            /\ calls' = Append(calls,
                   Call(by, op, [ orderId |-> draftOrder.id, input |-> input ]))
            /\ toast' = NoToast
    /\ response' = NoResponse
    /\ UNCHANGED <<orderVars, formVars, submitVars, lastOp, page, listVars, searchVars>>

SaveForm(by, op, valid, input) ==
    /\ IF draftOrder.id = ""
       THEN /\ toast' = NoToast
            /\ UNCHANGED calls
       ELSE IF ~valid
       THEN /\ toast' = Toast("error", "Please fill in all required fields")
            /\ UNCHANGED calls
       ELSE /\ Len(calls) < MaxInFlight
            /\ calls' = Append(calls,
                   Call(by, op, [ orderId |-> draftOrder.id, input |-> input ]))
            /\ toast' = NoToast
    /\ response' = NoResponse
    /\ UNCHANGED <<orderVars, formVars, submitVars, lastOp, page, listVars, searchVars>>

saveCustomer ==
    /\ OnOrderPage /\ customerModalOpen
    /\ SaveForm("saveCustomer", "setCustomerForDraftOrder",
                CustomerFormValid, customerForm)

saveShippingAddress ==
    /\ OnOrderPage /\ shippingModalOpen
    /\ SaveForm("saveShippingAddress", "setDraftOrderShippingAddress",
                AddressFormValid(shippingForm), shippingForm)

saveBillingAddress ==
    /\ OnOrderPage /\ billingModalOpen
    /\ SaveForm("saveBillingAddress", "setDraftOrderBillingAddress",
                AddressFormValid(billingForm), billingForm)

\* the "copy from shipping" button, disabled without a shipping address
copyShippingToBilling ==
    /\ OnOrderPage /\ NoModalOpen
    /\ draftOrder.shippingAddress # <<>>
    /\ Len(calls) < MaxInFlight
    /\ calls' = Append(calls,
           Call("copyShippingToBilling", "setDraftOrderBillingAddress",
                [ orderId |-> draftOrder.id,
                  input |-> draftOrder.shippingAddress[1] ]))
    /\ response' = NoResponse
    /\ toast' = NoToast
    /\ UNCHANGED <<orderVars, formVars, submitVars, lastOp, page, listVars, searchVars>>

\* the "Complete Order" button, disabled without lines and while loading
completeOrder ==
    /\ OnOrderPage /\ NoModalOpen
    /\ draftOrder.lines # {}
    /\ ~orderLoading
    /\ IF draftOrder.id = ""
       THEN UNCHANGED <<calls, orderLoading>>
       ELSE /\ Len(calls) < MaxInFlight
            /\ orderLoading' = TRUE
            /\ calls' = Append(calls,
                   Call("completeOrder", "transitionOrderToState",
                        [ id |-> draftOrder.id, state |-> "ArrangingPayment" ]))
    /\ UNCHANGED <<mounted, route, draftOrder, modalVars, orderFormVars>>
    /\ response' = NoResponse
    /\ toast' = NoToast
    /\ UNCHANGED <<formVars, submitVars, lastOp, page, listVars, searchVars>>

\* a "Cancel" button that asks the remote API to cancel the draft
onCancelOrder_RequestsCancelled ==
    /\ OnOrderPage
    /\ NoModalOpen
    /\ ~orderLoading
    /\ draftOrder.id # ""
    /\ Len(calls) < MaxInFlight
    /\ calls' = Append(calls,
           Call("onCancel", "transitionOrderToState",
                [ id |-> draftOrder.id, state |-> "Cancelled" ]))
    /\ route' = "/orders"
    /\ UNCHANGED <<mounted, draftOrder, orderLoading, modalVars, orderFormVars>>
    /\ response' = NoResponse
    /\ toast' = NoToast
    /\ UNCHANGED <<formVars, submitVars, lastOp, page, listVars, searchVars>>

\* the "Cancel" button, disabled while loading
onCancelOrder ==
    /\ OnOrderPage
    /\ NoModalOpen
    /\ ~orderLoading
    /\ route' = "/orders"
    /\ UNCHANGED <<mounted, draftOrder, orderLoading, modalVars, orderFormVars>>
    /\ response' = NoResponse
    /\ toast' = NoToast
    /\ UNCHANGED <<calls, formVars, submitVars, lastOp, page, listVars, searchVars>>

SuccessText(by) ==
    CASE by = "addItemToOrder" -> "added to order"
      [] by = "removeItemFromOrder" -> "Item removed from order"
      [] by = "saveCustomer" -> "Customer information saved"
      [] by = "saveShippingAddress" -> "Shipping address saved"
      [] by = "saveBillingAddress" -> "Billing address saved"
      [] by = "copyShippingToBilling" -> "Billing address copied from shipping address"
      [] by = "completeOrder" -> "Order completed successfully"
      [] by = "initializeDraftOrder" -> "Draft order created!"

FailureText(by) ==
    CASE by = "addItemToOrder" -> "Failed to add item to order"
      [] by = "removeItemFromOrder" -> "Failed to remove item from order"
      [] by = "saveCustomer" -> "Failed to save customer information"
      [] by = "saveShippingAddress" -> "Failed to save shipping address"
      [] by = "saveBillingAddress" -> "Failed to save billing address"
      [] by = "copyShippingToBilling" -> "Failed to copy billing address"
      [] by = "completeOrder" -> "Failed to complete order"
      [] by = "initializeDraftOrder" -> "Failed to create draft order"

\* the handlers that store the response's aggregate in draftOrder
StoringHandlers ==
    { "addItemToOrder", "removeItemFromOrder", "saveCustomer",
      "saveShippingAddress", "saveBillingAddress", "copyShippingToBilling" }

\* the handlers of the draft-order page that await a mutation
OrderHandlers == StoringHandlers \cup { "initializeDraftOrder", "completeOrder" }

\* the response of calls[i] arrives right after the response of a call that
\* was issued later
Overtaken(i) == "position" \in DOMAIN response /\ i < response.position

\* a client that discards the response of an overtaken call
IsStale_WhenOvertaken(i) == Overtaken(i)

\* the handlers keep no request counter: between the await and the
\* assignment no response is taken as stale
IsStale(i) == FALSE

\* the continuation of a handler after its await: the call resolved
Resolved(i, received) ==
    /\ page = "/orders/create"
    /\ i \in 1..Len(calls)
    /\ calls[i].by \in OrderHandlers
    /\ received \in ResultsOf(calls[i])
    /\ LET by == calls[i].by IN
       /\ calls' = RemoveAt(calls, i)
       /\ response' =
             [ by |-> by,
               ok |-> ~(by = "initializeDraftOrder" /\ received.id = ""),
               data |-> received,
               position |-> i, overtaken |-> Overtaken(i) ]
       /\ draftOrder' =
             IF by \in StoringHandlers \cup { "initializeDraftOrder" } /\ ~IsStale(i)
             THEN StoreAggregate(draftOrder, received)
             ELSE draftOrder
       /\ toast' =
             IF by = "initializeDraftOrder" /\ received.id = ""
             THEN Toast("error", FailureText(by))
             ELSE Toast("success", SuccessText(by))
       /\ customerModalOpen' = IF by = "saveCustomer" THEN FALSE ELSE customerModalOpen
       /\ shippingModalOpen' =
             IF by = "saveShippingAddress" THEN FALSE ELSE shippingModalOpen
       /\ billingModalOpen' =
             IF by = "saveBillingAddress" THEN FALSE ELSE billingModalOpen
       /\ orderLoading' =
             IF by \in { "initializeDraftOrder", "completeOrder" }
             THEN FALSE ELSE orderLoading
       /\ route' = IF by = "completeOrder" THEN "/orders" ELSE route
    /\ UNCHANGED <<mounted, orderFormVars, formVars, submitVars, lastOp, page, listVars, searchVars>>

\* a catch block that also drops the mirrored order and closes the modals
Rejected_ResetsPage(i, thrown) ==
    /\ page = "/orders/create"
    /\ i \in 1..Len(calls)
    /\ calls[i].by \in OrderHandlers
    /\ LET by == calls[i].by IN
       /\ calls' = RemoveAt(calls, i)
       /\ response' = [ by |-> by, ok |-> FALSE, data |-> thrown ]
       /\ toast' = Toast("error", FailureText(by))
       /\ orderLoading' =
             IF by \in { "initializeDraftOrder", "completeOrder" }
             THEN FALSE ELSE orderLoading
    /\ draftOrder' = NoOrder
    /\ customerModalOpen' = FALSE
    /\ shippingModalOpen' = FALSE
    /\ billingModalOpen' = FALSE
    /\ UNCHANGED <<mounted, route, orderFormVars, formVars, submitVars, lastOp, page, listVars, searchVars>>

\* the continuation of a handler after its await: the call threw
Rejected(i, thrown) ==
    /\ page = "/orders/create"
    /\ i \in 1..Len(calls)
    /\ calls[i].by \in OrderHandlers
    /\ LET by == calls[i].by IN
       /\ calls' = RemoveAt(calls, i)
       /\ response' = [ by |-> by, ok |-> FALSE, data |-> thrown ]
       /\ toast' = Toast("error", FailureText(by))
       /\ orderLoading' =
             IF by \in { "initializeDraftOrder", "completeOrder" }
             THEN FALSE ELSE orderLoading
    /\ UNCHANGED <<mounted, route, draftOrder, modalVars, orderFormVars, formVars, submitVars, lastOp, page, listVars, searchVars>>

----------------------------------------------------------------------------
(* Product search of the draft-order page *)

\* delay of the debounced loadProducts, in milliseconds
DebounceDelay == 300

\* take of the search query
SearchTake == 50

\* what the user can type into the search input
SearchQueries == { "", "a", "ab" }

\* products the search may answer with
SearchResults == { <<>>, << "v1" >>, << "v1", "v2" >> }

\* a search input that stays enabled while productsLoading
typeSearch_NotDisabled(query) ==
    /\ OnOrderPage /\ NoModalOpen
    /\ query # productSearchQuery
    /\ productSearchQuery' = query
    /\ debouncePending' = TRUE
    /\ response' = NoResponse
    /\ toast' = NoToast
    /\ UNCHANGED <<productsLoading, products, calls>>
    /\ UNCHANGED <<orderVars, formVars, submitVars, lastOp, page, listVars>>

\* v-model of the search input, disabled while productsLoading, and the
\* watcher on productSearchQuery: the call of the debounced loadProducts
\* starts its timer anew
typeSearch(query) ==
    /\ OnOrderPage /\ NoModalOpen
    /\ ~productsLoading
    /\ query # productSearchQuery
    /\ productSearchQuery' = query
    /\ debouncePending' = TRUE
    /\ response' = NoResponse
    /\ toast' = NoToast
    /\ UNCHANGED <<productsLoading, products, calls>>
    /\ UNCHANGED <<orderVars, formVars, submitVars, lastOp, page, listVars>>

\* DebounceDelay after the last change: loadProducts up to its await
loadProducts ==
    /\ debouncePending
    /\ debouncePending' = FALSE
    /\ IF productSearchQuery = ""
       THEN /\ products' = <<>>
            /\ UNCHANGED <<productsLoading, calls>>
       ELSE /\ Len(calls) < MaxInFlight
            /\ productsLoading' = TRUE
            /\ calls' = Append(calls,
                   Call("loadProducts", "products",
                        [ take |-> SearchTake, contains |-> productSearchQuery ]))
            /\ UNCHANGED products
    /\ response' = NoResponse
    /\ toast' = NoToast
    /\ UNCHANGED productSearchQuery
    /\ UNCHANGED <<orderVars, formVars, submitVars, lastOp, page, listVars>>

\* the continuation of loadProducts after its await: the query resolved
searchResolved(i, items) ==
    /\ i \in 1..Len(calls)
    /\ calls[i].by = "loadProducts"
    /\ calls' = RemoveAt(calls, i)
    /\ products' = items
    /\ productsLoading' = FALSE
    /\ response' = [ by |-> "loadProducts", ok |-> TRUE, data |-> items ]
    /\ toast' = NoToast
    /\ UNCHANGED <<productSearchQuery, debouncePending>>
    /\ UNCHANGED <<orderVars, formVars, submitVars, lastOp, page, listVars>>

\* the continuation of loadProducts after its await: the query threw
searchRejected(i, thrown) ==
    /\ i \in 1..Len(calls)
    /\ calls[i].by = "loadProducts"
    /\ calls' = RemoveAt(calls, i)
    /\ productsLoading' = FALSE
    /\ response' = [ by |-> "loadProducts", ok |-> FALSE, data |-> thrown ]
    /\ toast' = Toast("error", "Failed to load products")
    /\ UNCHANGED <<productSearchQuery, debouncePending, products>>
    /\ UNCHANGED <<orderVars, formVars, submitVars, lastOp, page, listVars>>

----------------------------------------------------------------------------
(* Listing pages: orders, products, attributes, collections *)

ListPages == { "/orders", "/products", "/attributes", "/collections" }

\* the pages with an error ref, a full-panel error view and a pagination
PagedPages == { "/orders", "/products", "/attributes" }

\* pagination.pageSize
PageSize == 10

\* take of the collections query
CollectionsTake == 100

fetchHandler ==
    CASE page = "/orders" -> "fetchOrders"
      [] page = "/products" -> "fetchProducts"
      [] page = "/attributes" -> "fetchFacets"
      [] page = "/collections" -> "fetchCollections"
      [] OTHER -> ""

FetchHandlers == { "fetchOrders", "fetchProducts", "fetchFacets", "fetchCollections" }

\* the field of the query's data the page reads
QueryField ==
    CASE page = "/orders" -> "orders"
      [] page = "/products" -> "products"
      [] page = "/attributes" -> "facets"
      [] page = "/collections" -> "collections"
      [] OTHER -> ""

FetchFailureText ==
    CASE page = "/orders" -> "Failed to fetch orders"
      [] page = "/products" -> "Failed to fetch products"
      [] page = "/attributes" -> "Failed to fetch attributes"
      [] OTHER -> ""

\* rows the remote API may hold
Rows == << "r1", "r2" >>

\* lists the remote API may answer a list query with
ListResults ==
    { [ items |-> <<>>, totalItems |-> 0 ],
      [ items |-> SubSeq(Rows, 1, 1), totalItems |-> 1 ],
      [ items |-> Rows, totalItems |-> MaxTotalItems ] }

\* err.message of a call that threw
ErrorMessages == { "", "Network error" }

\* results the remote API may answer deleteProduct with
DeletionResponses ==
    { [ result |-> "DELETED", message |-> "" ],
      [ result |-> "NOT_DELETED", message |-> "" ],
      [ result |-> "NOT_DELETED", message |-> "Product is in use" ] }

OnListPage == page \in ListPages /\ mounted

\* v-if="error"
ErrorViewShown == page \in PagedPages /\ error # <<>>

\* v-else-if="loading && data.length === 0"
SkeletonShown == ~ErrorViewShown /\ listLoading /\ data = <<>>

\* v-else
TableShown == ~ErrorViewShown /\ ~SkeletonShown

\* Math.ceil(totalItems / pagination.pageSize)
PageCount == (totalItems + pagination.pageSize - 1) \div pagination.pageSize

\* pages the pagination can offer for the lists of the model
MaxPages == (MaxTotalItems + PageSize - 1) \div PageSize

\* a query that takes the page index for the number of rows to skip
FetchOptions_SkipIsPageIndex(pg) ==
    IF page = "/collections"
    THEN [ take |-> CollectionsTake, sort |-> "name ASC" ]
    ELSE [ take |-> pg.pageSize, skip |-> pg.pageIndex ]

\* the variables of the list query
FetchOptions(pg) ==
    IF page = "/collections"
    THEN [ take |-> CollectionsTake, sort |-> "name ASC" ]
    ELSE [ take |-> pg.pageSize, skip |-> pg.pageIndex * pg.pageSize ]

\* fetchOrders / fetchProducts / fetchFacets / fetchCollections up to the
\* await of the query; the continuation of nextTick() runs before any other
\* event is handled and so belongs to the same step
StartFetch(pending, pg) ==
    /\ listLoading' = TRUE
    /\ error' = IF page \in PagedPages THEN <<>> ELSE error
    /\ calls' = Append(pending, Call(fetchHandler, QueryField, FetchOptions(pg)))

\* onMounted of a listing page
onMountedList ==
    /\ page \in ListPages
    /\ ~mounted
    /\ mounted' = TRUE
    /\ StartFetch(calls, pagination)
    /\ response' = NoResponse
    /\ toast' = NoToast
    /\ UNCHANGED <<data, totalItems, pagination>>
    /\ UNCHANGED <<route, draftVars, formVars, submitVars, lastOp, page, searchVars>>

\* a pagination that stays enabled while loading
updatePage_NotDisabled(p) ==
    /\ OnListPage /\ page \in PagedPages
    /\ TableShown
    /\ p \in 1..PageCount
    /\ p - 1 # pagination.pageIndex
    /\ Len(calls) < MaxInFlight
    /\ pagination' = [pagination EXCEPT !.pageIndex = p - 1]
    /\ StartFetch(calls, pagination')
    /\ response' = NoResponse
    /\ toast' = NoToast
    /\ UNCHANGED <<data, totalItems>>
    /\ UNCHANGED <<mounted, route, draftVars, formVars, submitVars, lastOp, page, searchVars>>

\* UPagination's update:page, disabled while loading, and the watcher on
\* pagination it triggers
updatePage(p) ==
    /\ OnListPage /\ page \in PagedPages
    /\ TableShown /\ ~listLoading
    /\ p \in 1..PageCount
    /\ p - 1 # pagination.pageIndex
    /\ Len(calls) < MaxInFlight
    /\ pagination' = [pagination EXCEPT !.pageIndex = p - 1]
    /\ StartFetch(calls, pagination')
    /\ response' = NoResponse
    /\ toast' = NoToast
    /\ UNCHANGED <<data, totalItems>>
    /\ UNCHANGED <<mounted, route, draftVars, formVars, submitVars, lastOp, page, searchVars>>

\* page sizes a caller may assign to pagination.pageSize; no control of the
\* templates does, the deep watcher on pagination is all that handles it
PageSizes == { PageSize, 2 * PageSize }

\* an assignment of the page size that also returns to the first page
setPageSize_ResetsPage(s) ==
    /\ OnListPage /\ page \in PagedPages
    /\ s # pagination.pageSize
    /\ Len(calls) < MaxInFlight
    /\ pagination' = [ pageIndex |-> 0, pageSize |-> s ]
    /\ StartFetch(calls, pagination')
    /\ response' = NoResponse
    /\ toast' = NoToast
    /\ UNCHANGED <<data, totalItems>>
    /\ UNCHANGED <<mounted, route, draftVars, formVars, submitVars, lastOp, page, searchVars>>

\* pagination.pageSize = s, and the deep watcher on pagination it triggers
setPageSize(s) ==
    /\ OnListPage /\ page \in PagedPages
    /\ s # pagination.pageSize
    /\ Len(calls) < MaxInFlight
    /\ pagination' = [pagination EXCEPT !.pageSize = s]
    /\ StartFetch(calls, pagination')
    /\ response' = NoResponse
    /\ toast' = NoToast
    /\ UNCHANGED <<data, totalItems>>
    /\ UNCHANGED <<mounted, route, draftVars, formVars, submitVars, lastOp, page, searchVars>>

\* the "Try Again" button of the error view, disabled while loading
tryAgain ==
    /\ OnListPage
    /\ ErrorViewShown /\ ~listLoading
    /\ Len(calls) < MaxInFlight
    /\ StartFetch(calls, pagination)
    /\ response' = NoResponse
    /\ toast' = NoToast
    /\ UNCHANGED <<data, totalItems, pagination>>
    /\ UNCHANGED <<mounted, route, draftVars, formVars, submitVars, lastOp, page, searchVars>>

\* the continuation of a fetch after its await: the query resolved
fetchResolved(i, result) ==
    /\ page \in ListPages
    /\ i \in 1..Len(calls)
    /\ calls[i].by = fetchHandler
    /\ calls' = RemoveAt(calls, i)
    /\ IF page = "/collections"
       THEN /\ data' = IF result.items # <<>> THEN result.items ELSE data
            /\ UNCHANGED totalItems
       ELSE /\ data' = result.items
            /\ totalItems' = result.totalItems
    /\ listLoading' = FALSE
    /\ response' = [ by |-> fetchHandler, ok |-> TRUE, data |-> result ]
    /\ toast' = NoToast
    /\ UNCHANGED <<error, pagination>>
    /\ UNCHANGED <<mounted, route, draftVars, formVars, submitVars, lastOp, page, searchVars>>

\* a fetch that is started again when its query threw
fetchRejected_Retries(i, message) ==
    /\ page \in ListPages
    /\ i \in 1..Len(calls)
    /\ calls[i].by = fetchHandler
    /\ IF page = "/collections"
       THEN toast' = NoToast
       ELSE toast' = Toast("error",
                IF message # "" THEN message ELSE FetchFailureText)
    /\ StartFetch(RemoveAt(calls, i), pagination)
    /\ response' = [ by |-> fetchHandler, ok |-> FALSE, data |-> NoOrder ]
    /\ UNCHANGED <<data, totalItems, pagination>>
    /\ UNCHANGED <<mounted, route, draftVars, formVars, submitVars, lastOp, page, searchVars>>

\* the continuation of a fetch after its await: the query threw
fetchRejected(i, message) ==
    /\ page \in ListPages
    /\ i \in 1..Len(calls)
    /\ calls[i].by = fetchHandler
    /\ calls' = RemoveAt(calls, i)
    /\ IF page = "/collections"
       THEN /\ toast' = NoToast
            /\ UNCHANGED error
       ELSE LET text == IF message # "" THEN message ELSE FetchFailureText IN
            /\ error' = << text >>
            /\ toast' = Toast("error", text)
    /\ listLoading' = FALSE
    /\ response' = [ by |-> fetchHandler, ok |-> FALSE, data |-> NoOrder ]
    /\ UNCHANGED <<data, totalItems, pagination>>
    /\ UNCHANGED <<mounted, route, draftVars, formVars, submitVars, lastOp, page, searchVars>>

\* "Delete" of a row's menu on the products page: deleteProduct up to its
\* await
deleteProduct(productId) ==
    /\ page = "/products" /\ mounted
    /\ TableShown
    /\ \E k \in 1..Len(data) : data[k] = productId
    /\ Len(calls) < MaxInFlight
    /\ calls' = Append(calls,
           Call("deleteProduct", "deleteProduct", [ id |-> productId ]))
    /\ response' = NoResponse
    /\ toast' = NoToast
    /\ UNCHANGED listVars
    /\ UNCHANGED <<mounted, route, draftVars, formVars, submitVars, lastOp, page, searchVars>>

\* the continuation of deleteProduct after its await: the mutation resolved
deleteResolved(i, deletion) ==
    /\ page = "/products"
    /\ i \in 1..Len(calls)
    /\ calls[i].by = "deleteProduct"
    /\ IF deletion.result = "DELETED"
       THEN /\ toast' = Toast("success", "has been deleted successfully.")
            /\ StartFetch(RemoveAt(calls, i), pagination)
            /\ UNCHANGED <<data, totalItems, pagination>>
       ELSE /\ toast' = Toast("error",
                   IF deletion.message # "" THEN deletion.message
                   ELSE "Failed to delete product")
            /\ calls' = RemoveAt(calls, i)
            /\ UNCHANGED listVars
    /\ response' =
          [ by |-> "deleteProduct", ok |-> deletion.result = "DELETED",
            data |-> NoOrder ]
    /\ UNCHANGED <<mounted, route, draftVars, formVars, submitVars, lastOp, page, searchVars>>

\* the continuation of deleteProduct after its await: the mutation threw
deleteRejected(i, message) ==
    /\ page = "/products"
    /\ i \in 1..Len(calls)
    /\ calls[i].by = "deleteProduct"
    /\ toast' = Toast("error",
          IF message # "" THEN message ELSE "Failed to delete product")
    /\ calls' = RemoveAt(calls, i)
    /\ response' = [ by |-> "deleteProduct", ok |-> FALSE, data |-> NoOrder ]
    /\ UNCHANGED listVars
    /\ UNCHANGED <<mounted, route, draftVars, formVars, submitVars, lastOp, page, searchVars>>

----------------------------------------------------------------------------
(* Submission of the product-creation form *)

\* onSubmit is not running
Idle ==
    [ pc |-> "idle", product |-> <<>>, group |-> 0, createdGroup |-> <<>>,
      createdOptionGroups |-> <<>> ]

InitSubmit ==
    /\ formLoading = FALSE
    /\ submit = Idle
    /\ sent = <<>>

\* the id the remote API gives to the counterpart of a group or an option
ServerId(id) == << "created", id >>

\* productData.createProduct
CreatedProduct == [ id |-> "p1" ]

\* groupData.createProductOptionGroup: the group as the remote API stores
\* it, with ids of its own and the codes it was sent
CreatedGroup(group) ==
    [ id |-> ServerId(group.id), code |-> group.code,
      options |-> [o \in 1..Len(group.options) |->
                     [ id |-> ServerId(group.options[o].id),
                       code |-> group.options[o].code ]] ]

\* Array.prototype.find: <<>> when no element passes the test
Find(seq, Test(_)) ==
    LET found == { i \in 1..Len(seq) : Test(seq[i]) }
    IN  IF found = {} THEN <<>>
        ELSE << seq[CHOOSE i \in found : \A k \in found : i <= k] >>

\* the created option id a variant's selection maps to, <<>> for null
MappedOptionId(variantOption, created) ==
    LET HasGroupId(og) == og.id = variantOption.optionGroupId
        originalGroup == Find(form.optionGroups, HasGroupId)
    IN  IF originalGroup = <<>> THEN <<>>
        ELSE LET HasOptionId(o) == o.id = variantOption.optionId
                 originalOption == Find(originalGroup[1].options, HasOptionId)
             IN  IF originalOption = <<>> THEN <<>>
                 ELSE LET HasGroupCode(g) == g.code = originalGroup[1].code
                          createdGroup == Find(created, HasGroupCode)
                      IN  IF createdGroup = <<>> THEN <<>>
                          ELSE LET HasOptionCode(o) == o.code = originalOption[1].code
                                   createdOption ==
                                       Find(createdGroup[1].options, HasOptionCode)
                               IN  IF createdOption = <<>> THEN <<>>
                                   ELSE << createdOption[1].id >>

RECURSIVE Flatten(_)
Flatten(seqs) == IF seqs = <<>> THEN <<>> ELSE Head(seqs) \o Flatten(Tail(seqs))

\* variant.options.map(...).filter(Boolean)
MappedOptionIds(variant, created) ==
    Flatten([k \in 1..Len(variant.options) |->
                MappedOptionId(variant.options[k], created)])

VariantInput(variant, product, created) ==
    [ productId |-> product.id, name |-> variant.name, sku |-> variant.sku,
      optionIds |-> MappedOptionIds(variant, created) ]

GroupInput(group) ==
    [ code |-> group.code, name |-> group.name,
      options |-> [o \in 1..Len(group.options) |->
                     [ code |-> group.options[o].code,
                       name |-> group.options[o].name ]] ]

\* errorMessage of the catch block
CatchText(thrown) ==
    IF Len(thrown.graphQLErrors) > 0 THEN thrown.graphQLErrors[1]
    ELSE IF thrown.networkError THEN "Network error - please check your connection"
    ELSE IF thrown.message # "" THEN thrown.message
    ELSE "Failed to create product"

\* new Error(message)
NewError(message) ==
    [ graphQLErrors |-> <<>>, networkError |-> FALSE, message |-> message ]

\* a catch block that deletes the product the submission has created
Failed_DeletesProduct(thrown) ==
    /\ toast' = Toast("error", CatchText(thrown))
    /\ response' = [ by |-> "onSubmit", ok |-> FALSE, data |-> thrown ]
    /\ formLoading' = FALSE
    /\ submit' = Idle
    /\ calls' = IF submit.product # <<>>
                THEN << Call("onSubmit", "deleteProduct",
                             [ id |-> submit.product[1].id ]) >>
                ELSE <<>>
    /\ UNCHANGED route

\* the try block threw: catch and finally
Failed(thrown) ==
    /\ toast' = Toast("error", CatchText(thrown))
    /\ response' = [ by |-> "onSubmit", ok |-> FALSE, data |-> thrown ]
    /\ formLoading' = FALSE
    /\ submit' = Idle
    /\ calls' = <<>>
    /\ UNCHANGED route

\* await $apollo.mutate(...)
Send(issued, op, group, variables, locals) ==
    /\ calls' = << Call("onSubmit", op, variables) >>
    /\ sent' = Append(issued, [ op |-> op, group |-> group ])
    /\ submit' = [locals EXCEPT !.pc = op, !.group = group]
    /\ formLoading' = TRUE
    /\ toast' = NoToast
    /\ UNCHANGED route

\* the success toast, router.push and finally
Succeeded(locals) ==
    /\ toast' = Toast("success", "Product created successfully")
    /\ route' = "/products/p1"
    /\ formLoading' = FALSE
    /\ submit' = Idle
    /\ calls' = <<>>
    /\ UNCHANGED sent

\* a step 3 that sends the variants mutation also for an empty list
VariantsStep_AlwaysSends(locals) ==
    /\ Send(sent, "createProductVariants", 0,
            [ input |-> [v \in 1..Len(form.variants) |->
                  VariantInput(form.variants[v], locals.product[1],
                               locals.createdOptionGroups)] ],
            locals)
    /\ response' = [ by |-> "onSubmit", ok |-> TRUE, data |-> NoOrder ]

\* step 3: the variants, if any
VariantsStep(locals) ==
    IF Len(form.variants) > 0
    THEN IF \E v \in 1..Len(form.variants) :
               Len(MappedOptionIds(form.variants[v], locals.createdOptionGroups))
                   # Len(locals.createdOptionGroups)
         THEN /\ Failed(NewError("Variant should have as many options as groups"))
              /\ UNCHANGED sent
         ELSE /\ Send(sent, "createProductVariants", 0,
                      [ input |-> [v \in 1..Len(form.variants) |->
                            VariantInput(form.variants[v], locals.product[1],
                                         locals.createdOptionGroups)] ],
                      locals)
              /\ response' = [ by |-> "onSubmit", ok |-> TRUE, data |-> NoOrder ]
    ELSE /\ Succeeded(locals)
         /\ response' = [ by |-> "onSubmit", ok |-> TRUE, data |-> NoOrder ]

\* step 2: the loop over form.optionGroups, at the group of the given index
GroupsStep(locals, g) ==
    IF g <= Len(form.optionGroups)
    THEN /\ Send(sent, "createProductOptionGroup", g,
                 [ input |-> GroupInput(form.optionGroups[g]) ], locals)
         /\ response' = [ by |-> "onSubmit", ok |-> TRUE, data |-> NoOrder ]
    ELSE VariantsStep(locals)

\* a submit without the check of the variants
onSubmit_WithoutVariantsCheck ==
    /\ page = "/products/create" /\ route = page
    /\ ~formLoading
    /\ Send(<<>>, "createProduct", 0,
            [ input |-> [ name |-> form.name, slug |-> form.slug ] ], Idle)
    /\ response' = NoResponse
    /\ lastOp' = "onSubmit"
    /\ UNCHANGED <<formVars, page, mounted, draftVars, searchVars, listVars>>

\* the submit of the form, disabled while loading: onSubmit up to its first
\* await
onSubmit ==
    /\ page = "/products/create" /\ route = page
    /\ ~formLoading
    /\ IF Len(form.optionGroups) > 0 /\ Len(form.variants) = 0
       THEN /\ Failed(NewError("Please generate variants before creating the product"))
            /\ sent' = <<>>
       ELSE /\ Send(<<>>, "createProduct", 0,
                    [ input |-> [ name |-> form.name, slug |-> form.slug ] ], Idle)
            /\ response' = NoResponse
    /\ lastOp' = "onSubmit"
    /\ UNCHANGED <<formVars, page, mounted, draftVars, searchVars, listVars>>

\* the continuation of onSubmit after an await: the mutation resolved, with
\* the object asked for or without
submitResolved(withData) ==
    /\ submit.pc # "idle"
    /\ Len(calls) = 1 /\ calls[1].by = "onSubmit"
    /\ CASE submit.pc = "createProduct" ->
              IF ~withData
              THEN /\ Failed(NewError("Product was created but no ID was returned"))
                   /\ UNCHANGED sent
              ELSE GroupsStep([submit EXCEPT !.product = << CreatedProduct >>], 1)
         [] submit.pc = "createProductOptionGroup" ->
              IF ~withData
              THEN /\ Failed(NewError("Failed to create option group"))
                   /\ UNCHANGED sent
              ELSE LET createdGroup == CreatedGroup(form.optionGroups[submit.group]) IN
                   /\ Send(sent, "addOptionGroupToProduct", submit.group,
                           [ productId |-> submit.product[1].id,
                             optionGroupId |-> createdGroup.id ],
                           [submit EXCEPT !.createdGroup = << createdGroup >>])
                   /\ response' = [ by |-> "onSubmit", ok |-> TRUE, data |-> NoOrder ]
         [] submit.pc = "addOptionGroupToProduct" ->
              GroupsStep([submit EXCEPT
                            !.createdOptionGroups = Append(@, submit.createdGroup[1]),
                            !.createdGroup = <<>>],
                         submit.group + 1)
         [] submit.pc = "createProductVariants" ->
              /\ Succeeded(submit)
              /\ response' = [ by |-> "onSubmit", ok |-> TRUE, data |-> NoOrder ]
    /\ lastOp' = "onSubmit"
    /\ UNCHANGED <<formVars, page, mounted, draftVars, searchVars, listVars>>

\* the continuation of onSubmit after an await: the mutation threw
submitRejected(thrown) ==
    /\ submit.pc # "idle"
    /\ Len(calls) = 1 /\ calls[1].by = "onSubmit"
    /\ Failed(thrown)
    /\ lastOp' = "onSubmit"
    /\ UNCHANGED sent
    /\ UNCHANGED <<formVars, page, mounted, draftVars, searchVars, listVars>>

----------------------------------------------------------------------------
(* Specifications *)

\* the refs of the product search as the script sets them up
InitSearch ==
    /\ productSearchQuery = ""
    /\ debouncePending = FALSE
    /\ productsLoading = FALSE
    /\ products = <<>>

\* the refs of the draft-order page as the script sets them up
InitOrderPage ==
    /\ mounted = FALSE
    /\ route = page
    /\ draftOrder = NoOrder
    /\ orderLoading = FALSE
    /\ customerModalOpen = FALSE
    /\ shippingModalOpen = FALSE
    /\ billingModalOpen = FALSE
    /\ customerForm = EmptyCustomer
    /\ shippingForm = EmptyAddress
    /\ billingForm = EmptyAddress
    /\ InitSearch

\* the refs of a listing page as the script sets them up
InitListPage ==
    /\ data = <<>>
    /\ totalItems = 0
    /\ listLoading = (page \in PagedPages)
    /\ error = <<>>
    /\ pagination = [ pageIndex |-> 0, pageSize |-> PageSize ]

InitNet ==
    /\ calls = <<>>
    /\ response = NoResponse
    /\ toast = NoToast

Init ==
    /\ form = InitForm
    /\ nextId = 0
    /\ lastOp = "init"
    /\ InitSubmit
    /\ page = "/products/create"
    /\ InitOrderPage
    /\ InitListPage
    /\ InitNet

\* the product-creation page as the user can drive it
Next ==
    \/ \E n \in ProductNames : SetName(n)
    \/ \E s \in SlugInputs : SetSlug(s)
    \/ addOptionGroup
    \/ \E g \in 1..MaxGroups : removeOptionGroup(g)
    \/ \E g \in 1..MaxGroups, n \in OptionNames : addOptionFromInput(g, n)
    \/ \E g \in 1..MaxGroups, o \in 1..MaxOptions : removeOption(g, o)
    \/ generateVariantsClick

Spec == Init /\ [][Next]_vars

\* generateVariants() applied to each input form
InitGenerate ==
    /\ form \in InputForms
    /\ nextId = MaxGroups * (MaxOptions + 1)
    /\ lastOp = "init"
    /\ InitSubmit
    /\ page = "/products/create"
    /\ InitOrderPage
    /\ InitListPage
    /\ InitNet

NextGenerate == generateVariantsCall

SpecGenerate == InitGenerate /\ [][NextGenerate]_vars

\* the draft-order page: the user's actions and the remote API's answers
NextOrder ==
    \/ onMounted
    \/ \E v \in VariantIds : addItemToOrder(v)
    \/ \E line \in OrderLines : removeItemFromOrder(line.id)
    \/ \E which \in { "customer", "shipping", "billing" } : openModal(which)
    \/ closeModal
    \/ \E input \in CustomerInputs : editCustomerForm(input)
    \/ \E input \in AddressInputs : editShippingForm(input)
    \/ \E input \in AddressInputs : editBillingForm(input)
    \/ saveCustomer
    \/ saveShippingAddress
    \/ saveBillingAddress
    \/ copyShippingToBilling
    \/ completeOrder
    \/ onCancelOrder
    \/ \E i \in 1..MaxInFlight, received \in Payloads \cup { TransitionError } :
           Resolved(i, received)
    \/ \E i \in 1..MaxInFlight, thrown \in ThrownErrors : Rejected(i, thrown)

\* a listing page: the user's actions and the remote API's answers
NextList ==
    \/ onMountedList
    \/ \E p \in 1..MaxPages : updatePage(p)
    \/ tryAgain
    \/ \E k \in 1..Len(Rows) : deleteProduct(Rows[k])
    \/ \E i \in 1..MaxInFlight, result \in ListResults : fetchResolved(i, result)
    \/ \E i \in 1..MaxInFlight, message \in ErrorMessages : fetchRejected(i, message)
    \/ \E i \in 1..MaxInFlight, deletion \in DeletionResponses :
           deleteResolved(i, deletion)
    \/ \E i \in 1..MaxInFlight, message \in ErrorMessages : deleteRejected(i, message)

\* the pages that talk to the remote API, one page per behaviour
InitPages ==
    /\ form = InitForm
    /\ nextId = 0
    /\ lastOp = "init"
    /\ InitSubmit
    /\ page \in ListPages \cup { "/orders/create" }
    /\ InitOrderPage
    /\ InitListPage
    /\ InitNet

NextPages == NextOrder \/ NextList

SpecPages == InitPages /\ [][NextPages]_vars

\* forms whose name field is typed and left: without and with option groups
\* and variants
SlugForms ==
    LET grouped == [InitForm EXCEPT
                       !.optionGroups = << BuildGroup(1, << <<"S">> >>) >>]
        bodies == { InitForm, [grouped EXCEPT !.variants = generateVariants(grouped)] }
    IN  { [body EXCEPT !.name = n, !.slug = s] :
            body \in bodies, n \in SlugNames, s \in SlugInputs }

InitSlug ==
    /\ form \in SlugForms
    /\ nextId = MaxGroups * (MaxOptions + 1)
    /\ lastOp = "init"
    /\ InitSubmit
    /\ page = "/products/create"
    /\ InitOrderPage
    /\ InitListPage
    /\ InitNet

NextSlug ==
    \/ generateSlug
    \/ handleNameBlur
    \/ \E s \in SlugInputs : SetSlug(s)

SpecSlug == InitSlug /\ [][NextSlug]_vars

\* a paged listing page whose page size is assigned by its caller
InitPageSize ==
    /\ form = InitForm
    /\ nextId = 0
    /\ lastOp = "init"
    /\ InitSubmit
    /\ page \in PagedPages
    /\ InitOrderPage
    /\ InitListPage
    /\ InitNet

NextPageSize ==
    \/ NextList
    \/ \E s \in PageSizes : setPageSize(s)

SpecPageSize == InitPageSize /\ [][NextPageSize]_vars

\* every way of filling or leaving empty the required fields of the forms
CustomerForms ==
    { [ firstName |-> f, lastName |-> l, emailAddress |-> e, phoneNumber |-> "" ] :
      f \in { "", "Ann" }, l \in { "", "Lee" }, e \in { "", "ann@x.io" } }

AddressForms ==
    { [ fullName |-> n, company |-> "", streetLine1 |-> s, streetLine2 |-> "",
        city |-> c, province |-> p, postalCode |-> z, countryCode |-> k,
        phoneNumber |-> "" ] :
      n \in { "", "Ann Lee" }, s \in { "", "1 Main St" }, c \in { "", "Oslo" },
      p \in { "", "Oslo" }, z \in { "", "0150" }, k \in { "", "NO" } }

\* the save handlers applied to a page with one modal open, whatever the
\* mirrored order and the content of the modal's form
InitSave ==
    /\ form = InitForm
    /\ nextId = 0
    /\ lastOp = "init"
    /\ InitSubmit
    /\ page = "/orders/create"
    /\ mounted = TRUE
    /\ route = page
    /\ draftOrder \in Payloads
    /\ orderLoading = FALSE
    /\ \E which \in { "customer", "shipping", "billing" } :
          /\ customerModalOpen = (which = "customer")
          /\ shippingModalOpen = (which = "shipping")
          /\ billingModalOpen = (which = "billing")
          /\ customerForm \in
                IF which = "customer" THEN CustomerForms ELSE { EmptyCustomer }
          /\ shippingForm \in
                IF which = "shipping" THEN AddressForms ELSE { EmptyAddress }
          /\ billingForm \in
                IF which = "billing" THEN AddressForms ELSE { EmptyAddress }
    /\ InitSearch
    /\ InitListPage
    /\ InitNet

NextSave ==
    \/ saveCustomer
    \/ saveShippingAddress
    \/ saveBillingAddress
    \/ \E received \in Payloads : Resolved(1, received)
    \/ \E thrown \in ThrownErrors : Rejected(1, thrown)

SpecSave == InitSave /\ [][NextSave]_vars

\* names the user can give to an option group
GroupNames == { Str0, <<"A">>, <<"B">> }

\* v-model="group.name" and handleOptionGroupNameBlur on a new group
NamedGroup(group, name) == [group EXCEPT !.name = name, !.code = CodeOf(name)]

WithoutLastGroup(f) ==
    [f EXCEPT !.optionGroups = SubSeq(@, 1, Len(@) - 1)]

\* variants the form may hold: none, the ones generated from the form as it
\* is, the ones generated before its last option group was added
VariantLists(f) ==
    { <<>>, generateVariants(f) } \cup
    IF Len(f.optionGroups) > 0
    THEN { generateVariants(WithoutLastGroup(f)) } ELSE {}

\* the input forms with their option groups named
NamedForms ==
    { [f EXCEPT !.optionGroups =
          [k \in 1..Len(f.optionGroups) |-> NamedGroup(f.optionGroups[k], names[k])]] :
      f \in InputForms, names \in [1..MaxGroups -> GroupNames] }

\* forms onSubmit is applied to
SubmitForms ==
    UNION { { [f EXCEPT !.variants = variants] : variants \in VariantLists(f) } :
            f \in NamedForms }

\* onSubmit applied to each form, and the remote API's answers
InitSubmitForm ==
    /\ form \in SubmitForms
    /\ nextId = MaxGroups * (MaxOptions + 1)
    /\ lastOp = "init"
    /\ InitSubmit
    /\ page = "/products/create"
    /\ InitOrderPage
    /\ InitListPage
    /\ InitNet

NextSubmit ==
    \/ onSubmit
    \/ \E withData \in BOOLEAN : submitResolved(withData)
    \/ \E thrown \in ThrownErrors : submitRejected(thrown)

SpecSubmit == InitSubmitForm /\ [][NextSubmit]_vars

\* the product search of the draft-order page, next to the creation of the
\* draft order
InitSearchPage ==
    /\ form = InitForm
    /\ nextId = 0
    /\ lastOp = "init"
    /\ InitSubmit
    /\ page = "/orders/create"
    /\ InitOrderPage
    /\ InitListPage
    /\ InitNet

NextSearch ==
    \/ onMounted
    \/ \E i \in 1..MaxInFlight, received \in Payloads : Resolved(i, received)
    \/ \E i \in 1..MaxInFlight, thrown \in ThrownErrors : Rejected(i, thrown)
    \/ \E query \in SearchQueries : typeSearch(query)
    \/ loadProducts
    \/ \E i \in 1..MaxInFlight, items \in SearchResults : searchResolved(i, items)
    \/ \E i \in 1..MaxInFlight, thrown \in ThrownErrors : searchRejected(i, thrown)

SpecSearch == InitSearchPage /\ [][NextSearch]_vars

----------------------------------------------------------------------------
(* Properties of the variant generator *)

Generated == lastOp = "generateVariants"

NumGroups == Len(form.optionGroups)

\* every group has an option and every option has a name and a code
AllGroupsValid ==
    \A g \in 1..NumGroups :
        /\ Len(form.optionGroups[g].options) >= 1
        /\ \A o \in 1..Len(form.optionGroups[g].options) :
               IsValidOption(form.optionGroups[g].options[o])

RECURSIVE Product(_)
Product(sizes) == IF Len(sizes) = 0 THEN 1 ELSE Head(sizes) * Product(Tail(sizes))

OptionIdsOf(variant) ==
    [k \in 1..Len(variant.options) |-> variant.options[k].optionId]

\* C1: for N >= 1 option groups whose options are all valid, with sizes
\* k1..kN >= 1, generateVariants leaves exactly k1*...*kN variants; each has
\* N selections, the i-th carrying the id of the i-th group and the id of one
\* of its options; no two variants carry the same list of option ids.
C1_CartesianProduct ==
    (Generated /\ NumGroups >= 1 /\ AllGroupsValid) =>
        /\ Len(form.variants) =
              Product([g \in 1..NumGroups |-> Len(form.optionGroups[g].options)])
        /\ \A v \in 1..Len(form.variants) :
              /\ Len(form.variants[v].options) = NumGroups
              /\ \A i \in 1..NumGroups :
                    /\ form.variants[v].options[i].optionGroupId
                          = form.optionGroups[i].id
                    /\ \E o \in 1..Len(form.optionGroups[i].options) :
                          form.optionGroups[i].options[o].id
                              = form.variants[v].options[i].optionId
        /\ \A v, w \in 1..Len(form.variants) :
              v # w => OptionIdsOf(form.variants[v]) # OptionIdsOf(form.variants[w])

C1_Witness ==
    /\ Generated
    /\ NumGroups = 2
    /\ AllGroupsValid
    /\ \A g \in 1..NumGroups : Len(form.optionGroups[g].options) = 2
    /\ Len(form.variants) = 4

\* the groups the generator keeps, and the valid options of each
KeptGroups == SelectSeq(form.optionGroups, HasValidOption)
KeptSizes == [i \in 1..Len(KeptGroups) |-> Len(ValidOptions(KeptGroups[i]))]

\* number of combinations of the groups after position i
Weight(i) == Product(SubSeq(KeptSizes, i + 1, Len(KeptSizes)))

\* position, within kept group i, of the option the j-th combination selects
\* when combinations are listed in lexicographic order
LexPosition(j, i) == (((j - 1) \div Weight(i)) % KeptSizes[i]) + 1

\* C2: the combinations appear in lexicographic order of (group position,
\* option position): the first group's option varies slowest, the last
\* group's fastest; groups keep the form's order and options the order in
\* which they were entered.
C2_LexicographicOrder ==
    (Generated /\ Len(KeptGroups) >= 1) =>
        /\ Len(form.variants) = Product(KeptSizes)
        /\ \A j \in 1..Len(form.variants) :
              /\ Len(form.variants[j].options) = Len(KeptGroups)
              /\ \A i \in 1..Len(KeptGroups) :
                    form.variants[j].options[i] =
                        Selection(KeptGroups[i],
                                  ValidOptions(KeptGroups[i])[LexPosition(j, i)])

C2_Witness ==
    /\ Generated
    /\ Len(KeptGroups) = 2
    /\ KeptSizes = <<2, 2>>
    /\ form.variants[2].options[1].optionId = form.variants[1].options[1].optionId
    /\ form.variants[2].options[2].optionId # form.variants[1].options[2].optionId
    /\ form.variants[3].options[1].optionId # form.variants[1].options[1].optionId

\* C3: in every reachable state of the form every variant lists exactly
\* len(form.optionGroups) selections, one for each option group of the form.
C3_VariantsMatchGroups ==
    \A v \in 1..Len(form.variants) :
        /\ Len(form.variants[v].options) = NumGroups
        /\ \A i \in 1..NumGroups :
              form.variants[v].options[i].optionGroupId = form.optionGroups[i].id

\* C4 as claimed: with no option groups generateVariants leaves exactly one
\* variant, named form.name, with no selections.
C4_AsClaimed ==
    (Generated /\ NumGroups = 0) =>
        /\ Len(form.variants) = 1
        /\ form.variants[1].name = form.name
        /\ form.variants[1].options = <<>>

\* C4 amended: with no option groups generateVariants leaves exactly one
\* variant with no selections, named form.name when the name is not empty
\* and "Default" when it is.
C4_DefaultVariant ==
    (Generated /\ NumGroups = 0) =>
        /\ Len(form.variants) = 1
        /\ form.variants[1].name =
              (IF form.name = Str0 THEN StrDefault ELSE form.name)
        /\ form.variants[1].options = <<>>

C4_Witness ==
    /\ Generated
    /\ NumGroups = 0
    /\ form.name = <<"T">>
    /\ Len(form.variants) = 1
    /\ form.variants[1].name = <<"T">>

FormWithoutGroup(g) == [form EXCEPT !.optionGroups = RemoveAt(@, g)]

InvalidGroups == { g \in 1..NumGroups : ~HasValidOption(form.optionGroups[g]) }

\* C5 as claimed: a group without a valid option contributes nothing: the
\* result equals that of the generator on the form without the group, each
\* variant has fewer selections than the form has groups, and with no valid
\* option in any group the result is empty.
C5_AsClaimed ==
    Generated =>
        /\ \A g \in InvalidGroups :
              /\ form.variants = generateVariants(FormWithoutGroup(g))
              /\ \A v \in 1..Len(form.variants) :
                    Len(form.variants[v].options) < NumGroups
        /\ (NumGroups >= 1 /\ InvalidGroups = 1..NumGroups) => form.variants = <<>>

\* C5 amended: as claimed, the equality being stated for a form that has at
\* least one other option group (without any group the generator yields the
\* single default variant instead of the empty list).
C5_InvalidGroupIgnored ==
    Generated =>
        /\ \A g \in InvalidGroups :
              /\ NumGroups >= 2 =>
                    form.variants = generateVariants(FormWithoutGroup(g))
              /\ \A v \in 1..Len(form.variants) :
                    Len(form.variants[v].options) < NumGroups
        /\ (NumGroups >= 1 /\ InvalidGroups = 1..NumGroups) => form.variants = <<>>

C5_Witness ==
    /\ Generated
    /\ NumGroups = 2
    /\ InvalidGroups = {1}
    /\ Len(form.optionGroups[1].options) = 1
    /\ Len(form.variants) = 2
    /\ Len(form.variants[1].options) = 1

\* the option of kept group i that a variant selects
SelectedOption(variant, i) ==
    CHOOSE option \in { KeptGroups[i].options[o] :
                          o \in 1..Len(KeptGroups[i].options) } :
        option.id = variant.options[i].optionId

SelectedNames(variant) ==
    [i \in 1..Len(KeptGroups) |-> SelectedOption(variant, i).name]

SelectedCodes(variant) ==
    [i \in 1..Len(KeptGroups) |-> SelectedOption(variant, i).code]

\* C6 as claimed: each generated variant is named
\* "{form.name} - {opt1} / {opt2} / ..." and has sku
\* "{form.slug}-{code1}-{code2}-...".
C6_AsClaimed ==
    (Generated /\ Len(KeptGroups) >= 1) =>
        \A v \in 1..Len(form.variants) :
            /\ form.variants[v].name =
                  form.name \o SepName \o Join(SelectedNames(form.variants[v]), SepOption)
            /\ form.variants[v].sku =
                  form.slug \o SepSku \o Join(SelectedCodes(form.variants[v]), SepSku)

\* C6 amended: as claimed, the sku starting with "product" in place of the
\* slug when form.slug is empty.
C6_NameAndSku ==
    (Generated /\ Len(KeptGroups) >= 1) =>
        \A v \in 1..Len(form.variants) :
            /\ form.variants[v].name =
                  form.name \o SepName \o Join(SelectedNames(form.variants[v]), SepOption)
            /\ form.variants[v].sku =
                  (IF form.slug = Str0 THEN StrProduct ELSE form.slug)
                  \o SepSku \o Join(SelectedCodes(form.variants[v]), SepSku)

C6_Witness ==
    /\ Generated
    /\ Len(KeptGroups) = 2
    /\ form.name = <<"T">>
    /\ form.slug = <<"s">>
    /\ \E v \in 1..Len(form.variants) :
          /\ form.variants[v].name = <<"T", " ", "-", " ", "S", " ", "/", " ", "M">>
          /\ form.variants[v].sku = <<"s", "-", "s", "-", "m">>

----------------------------------------------------------------------------
(* Properties of the draft-order page and of the listing pages *)

\* C7: after a draft-order mutation (add item, remove item, set customer,
\* set shipping address, set billing address, copy shipping to billing)
\* resolves successfully, draftOrder is exactly the aggregate the response
\* carried: nothing of the previous draftOrder is kept
C7_StoredWholesale ==
    (response.by \in StoringHandlers /\ response.ok) => draftOrder = response.data

\* an add-item response without a shipping address was stored although the
\* order mirrored before had one (its copy to billing is still awaited)
C7_Witness ==
    /\ response.by = "addItemToOrder" /\ response.ok
    /\ response.data.id # ""
    /\ response.data.shippingAddress = <<>>
    /\ draftOrder.shippingAddress = <<>>
    /\ \E i \in 1..Len(calls) : calls[i].by = "copyShippingToBilling"

\* C8: the only state transition the draft-order page ever requests is
\* transitionOrderToState to "ArrangingPayment", and completeOrder is the
\* handler that requests it
C8_OnlyArrangingPayment ==
    \A i \in 1..Len(calls) :
        calls[i].op = "transitionOrderToState" =>
            /\ calls[i].by = "completeOrder"
            /\ calls[i].variables.state = "ArrangingPayment"

C8_Witness ==
    /\ page = "/orders/create"
    /\ \E i \in 1..Len(calls) :
           /\ calls[i].op = "transitionOrderToState"
           /\ calls[i].variables.id = draftOrder.id

FailedMutation ==
    /\ response'.by \in StoringHandlers \cup { "deleteProduct" }
    /\ ~response'.ok

\* C9: the step that handles a failed mutation only adds an error toast: a
\* failed deleteProduct leaves data, totalItems, pagination, error and
\* loading as they were and starts no fetch, a failed draft-order mutation
\* leaves draftOrder and the modal-open flags as they were
C9_FailedMutationOnlyToasts ==
    [][ FailedMutation =>
          /\ toast'.color = "error"
          /\ UNCHANGED <<data, totalItems, pagination, error, listLoading>>
          /\ UNCHANGED <<draftOrder, modalVars>>
          /\ \E i \in 1..Len(calls) : calls' = RemoveAt(calls, i) ]_vars

\* a deleteProduct failed on a products page that shows rows
C9_Witness ==
    /\ response.by = "deleteProduct" /\ ~response.ok
    /\ toast.color = "error"
    /\ data # <<>>
    /\ totalItems > 0

\* a saveCustomer failed while its modal was open on a mirrored order
C9_WitnessDraftOrder ==
    /\ response.by = "saveCustomer" /\ ~response.ok
    /\ toast.color = "error"
    /\ customerModalOpen
    /\ draftOrder.id # ""

\* C10: on every listing page, the step that handles a failed list fetch
\* leaves the page in its error state: error is non-null and the error view
\* with the "Try Again" button is shown
C10_FailedFetchShowsErrorView ==
    (response.by \in FetchHandlers /\ ~response.ok) => ErrorViewShown

\* C11: when transitionOrderToState resolves with an
\* OrderStateTransitionError, the step of completeOrder that handles the
\* response adds an error toast and the page stays on /orders/create
C11_TransitionErrorIsAnError ==
    (response.by = "completeOrder" /\ response.data = TransitionError) =>
        /\ toast.color = "error"
        /\ route = "/orders/create"

CustomerFormIncomplete ==
    \/ customerForm.firstName = ""
    \/ customerForm.lastName = ""
    \/ customerForm.emailAddress = ""

AddressFormIncomplete(address) ==
    \/ address.fullName = "" \/ address.streetLine1 = ""
    \/ address.city = "" \/ address.province = ""
    \/ address.postalCode = "" \/ address.countryCode = ""

\* C12: saveCustomer with firstName, lastName or emailAddress empty, and
\* saveShippingAddress / saveBillingAddress with fullName, streetLine1,
\* city, province, postalCode or countryCode empty, send no mutation, leave
\* draftOrder as it was and leave the modal open
C12_ValidationBlocksSubmission ==
    [][ ( \/ saveCustomer /\ CustomerFormIncomplete
          \/ saveShippingAddress /\ AddressFormIncomplete(shippingForm)
          \/ saveBillingAddress /\ AddressFormIncomplete(billingForm) )
        => UNCHANGED <<calls, draftOrder, modalVars>> ]_vars

\* saveCustomer has refused a form that lacks only the e-mail address
C12_Witness ==
    /\ toast = Toast("error", "Please fill in all required fields")
    /\ customerModalOpen
    /\ customerForm.firstName # "" /\ customerForm.lastName # ""
    /\ customerForm.emailAddress = ""
    /\ draftOrder.id # ""
    /\ calls = <<>>

\* C13: when a remote call fails with GraphQL errors, the error toast
\* carries the message of the first GraphQL error
C13_FirstGraphQLErrorShown ==
    (~response.ok /\ response.data \in ThrownErrors
       /\ response.data.graphQLErrors # <<>>) =>
        toast = Toast("error", response.data.graphQLErrors[1])

\* the claim as stated, for the controls whose calls name their control: no
\* two awaited calls come from the same variant row or from the same row's
\* delete action
C14_AsClaimed ==
    \A i, j \in 1..Len(calls) :
        ( /\ i < j
          /\ calls[i].by = calls[j].by
          /\ calls[i].by \in { "addItemToOrder", "deleteProduct" } )
        => calls[i].variables # calls[j].variables

\* C14: a step starts at most one network call, and on the orders and
\* attributes listing pages at most one call awaits its response at any
\* time: the pagination is disabled until the fetch has completed
C14_OneCallPerActivation ==
    [][ /\ Len(calls') <= Len(calls) + 1
        /\ page' \in { "/orders", "/attributes" } => Len(calls') <= 1 ]_vars

\* the fetch of a page change is awaited on the orders page
C14_Witness ==
    /\ page = "/orders"
    /\ pagination.pageIndex = 1
    /\ listLoading
    /\ Len(calls) = 1
    /\ calls[1].variables.skip = PageSize

\* C15: when the response of a draft-order mutation is processed right
\* after the response of a mutation that was issued later, it is stored
\* like any other: draftOrder is the aggregate of the response processed
\* last, and no response is discarded as stale
C15_LastResponseWins ==
    ( /\ response.by \in StoringHandlers /\ response.ok
      /\ response.overtaken ) =>
        draftOrder = response.data

\* both of two overlapping mutations have been answered, the one issued
\* first last, and its aggregate is the one mirrored
C15_Witness ==
    /\ response.by = "addItemToOrder" /\ response.ok
    /\ response.overtaken
    /\ calls = <<>>
    /\ draftOrder = response.data
    /\ draftOrder.id # ""

SearchCalls == { i \in 1..Len(calls) : calls[i].by = "loadProducts" }

\* C16: at most one search query awaits its response at any time, and
\* while one does the search input is disabled (productsLoading) and no
\* timer of the debounced loadProducts is running
C16_OneSearchOutstanding ==
    /\ Cardinality(SearchCalls) <= 1
    /\ SearchCalls # {} => productsLoading /\ ~debouncePending

\* a second search is awaited after a first one has been answered
C16_Witness ==
    /\ Cardinality(SearchCalls) = 1
    /\ products # <<>>
    /\ productSearchQuery = "ab"
    /\ \E i \in SearchCalls : calls[i].variables.contains = "ab"

----------------------------------------------------------------------------
(* Properties of the submission of the product-creation form *)

ExpectedMutations(f) ==
    << [ op |-> "createProduct", group |-> 0 ] >>
    \o Flatten([g \in 1..Len(f.optionGroups) |->
                  << [ op |-> "createProductOptionGroup", group |-> g ],
                     [ op |-> "addOptionGroupToProduct", group |-> g ] >>])
    \o IF Len(f.variants) > 0
       THEN << [ op |-> "createProductVariants", group |-> 0 ] >>
       ELSE <<>>

IsPrefix(short, long) ==
    Len(short) <= Len(long) /\ short = SubSeq(long, 1, Len(short))

\* C17: the mutations onSubmit has issued are a prefix of: createProduct,
\* then per option group in form order createProductOptionGroup followed
\* by addOptionGroupToProduct, then createProductVariants with all variants
\* if the form has variants; at most one of them awaits its response, the
\* one issued last; the success toast and the navigation come after the
\* whole sequence was issued and answered
C17_SequentialMutations ==
    /\ IsPrefix(sent, ExpectedMutations(form))
    /\ Len(calls) <= 1
    /\ calls # <<>> =>
          /\ sent # <<>>
          /\ calls[1].op = sent[Len(sent)].op
          /\ calls[1].op = "createProductVariants" =>
                Len(calls[1].variables.input) = Len(form.variants)
    /\ (toast.color = "success" \/ route # page) =>
          /\ sent = ExpectedMutations(form)
          /\ calls = <<>>
          /\ toast = Toast("success", "Product created successfully")
          /\ route = "/products/p1"

\* a product with two option groups and several variants has been created
C17_Witness ==
    /\ route = "/products/p1"
    /\ Len(form.optionGroups) = 2
    /\ Len(form.variants) >= 2
    /\ Len(sent) = 6
    /\ sent[6].op = "createProductVariants"

----------------------------------------------------------------------------
(* Properties of the pagination of the listing pages *)

\* the step has started a list fetch: it is the call issued last
FetchStarted ==
    /\ calls' # calls
    /\ Len(calls') >= Len(calls)
    /\ calls'[Len(calls')].by \in FetchHandlers

\* C18: on the orders, products and attributes pages a list fetch started
\* with page index p and page size s sends skip = p * s and take = s
C18_SkipAndTake ==
    [][ (page \in PagedPages /\ FetchStarted) =>
          LET options == calls'[Len(calls')].variables IN
          /\ options.take = pagination'.pageSize
          /\ options.skip = pagination'.pageIndex * pagination'.pageSize ]_vars

\* the fetch of the third page of attributes awaits its response
C18_Witness ==
    /\ page = "/attributes"
    /\ pagination.pageIndex = 2
    /\ Len(calls) = 1
    /\ calls[1].by = "fetchFacets"
    /\ calls[1].variables = [ take |-> 10, skip |-> 20 ]

\* C19: a change of pagination.pageSize leaves pagination.pageIndex as it
\* is, and the refetch it triggers sends skip = pageIndex * (new pageSize)
\* and take = (new pageSize)
C19_PageSizeKeepsPageIndex ==
    [][ pagination'.pageSize # pagination.pageSize =>
          /\ pagination'.pageIndex = pagination.pageIndex
          /\ FetchStarted
          /\ calls'[Len(calls')].variables =
                 [ take |-> pagination'.pageSize,
                   skip |-> pagination.pageIndex * pagination'.pageSize ] ]_vars

\* on the third page the page size was doubled: the refetch asks for 20 rows
\* after the first 40
C19_Witness ==
    /\ page \in PagedPages
    /\ pagination = [ pageIndex |-> 2, pageSize |-> 20 ]
    /\ Len(calls) >= 1
    /\ calls[Len(calls)].by \in FetchHandlers
    /\ calls[Len(calls)].variables = [ take |-> 20, skip |-> 40 ]

----------------------------------------------------------------------------
(* Properties of the calls the pages issue *)

\* the step has sent a call to the remote API
CallIssued ==
    /\ calls' # calls
    /\ Len(calls') >= Len(calls)

\* the step has handled a call that failed: it threw, or the deletion was
\* refused
FailureHandled ==
    /\ response'.by # ""
    /\ ~response'.ok

\* the step is the continuation of a deletion the remote API has carried out
DeletionHandled ==
    /\ response'.by = "deleteProduct"
    /\ response'.ok

\* the step that handles a failed call sends nothing: the failed call leaves
\* the calls awaited and no call joins them
NoCallAfterFailure ==
    FailureHandled =>
        /\ ~CallIssued
        /\ \E i \in 1..Len(calls) : calls' = RemoveAt(calls, i)

\* C20: nothing is retried automatically: the step that handles a failed
\* fetch or mutation sends no call, and a call is sent only by a step of the
\* user (mount, page change, Try Again, row action, save) or by the refresh
\* after a deletion, one call per step
C20_NoAutomaticRetry ==
    [][ /\ NoCallAfterFailure
        /\ CallIssued =>
              /\ response' = NoResponse \/ DeletionHandled
              /\ Len(calls') <= Len(calls) + 1
              /\ SubSeq(calls', 1, Len(calls') - 1) \in
                    { calls } \cup { RemoveAt(calls, i) : i \in 1..Len(calls) }
      ]_vars

\* the fetch of the products has failed: the error view is shown and no call
\* awaits a response
C20_Witness ==
    /\ page = "/products"
    /\ response = [ by |-> "fetchProducts", ok |-> FALSE, data |-> NoOrder ]
    /\ ErrorViewShown
    /\ calls = <<>>

----------------------------------------------------------------------------
(* Properties of the slug generation *)

\* number of hyphens of a string
HyphenCount(s) == LET IsHyphen(c) == c = "-" IN Len(SelectSeq(s, IsHyphen))

\* a string without its hyphens
WithoutHyphens(s) == LET NotHyphen(c) == c # "-" IN SelectSeq(s, NotHyphen)

\* number of maximal runs of characters of s that satisfy In
Runs(s, In(_)) ==
    Cardinality({ i \in 1..Len(s) : In(s[i]) /\ (i = 1 \/ ~In(s[i - 1])) })

\* number of maximal runs of whitespace
WhitespaceRuns(s) == Runs(s, IsSpace)

\* number of maximal runs of characters outside [a-z0-9]
NonAlnumRuns(s) == LET NotAlnum(c) == ~IsAlnum(c) IN Runs(s, NotAlnum)

\* generateSlug has just assigned the slug of the form's name
SlugGenerated == lastOp = "generateSlug" /\ form.name # Str0

\* C21: generateSlug called a second time with the same name leaves the slug
\* the first call produced, whatever the slug was before the first call
C21_GenerateTwiceSameSlug ==
    [][ (lastOp = "generateSlug" /\ lastOp' = "generateSlug") =>
            form'.slug = form.slug ]_vars

\* the slug of "T s" was generated over a slug the form held
C21_Witness ==
    /\ lastOp = "generateSlug"
    /\ form.name = <<"T", " ", "s">>
    /\ form.slug = <<"t", "-", "s">>

\* C22 as claimed: every maximal run of characters outside [a-z0-9] of the
\* lower-cased name is a hyphen of the slug
C22_AsClaimed ==
    SlugGenerated =>
        HyphenCount(form.slug) = NonAlnumRuns(toLowerCase(form.name))

\* C22: characters outside [a-z0-9] other than whitespace and hyphens vanish
\* from the slug without a hyphen in their place: the slug holds the letters
\* and digits of the lower-cased name in their order, and no more hyphens
\* than the name has hyphens and runs of whitespace
C22_OthersRemoved ==
    SlugGenerated =>
        /\ WithoutHyphens(form.slug) = CodeOf(form.name)
        /\ HyphenCount(form.slug) <=
               HyphenCount(form.name) + WhitespaceRuns(form.name)

\* the slug of "T!s" is "ts"
C22_Witness ==
    /\ SlugGenerated
    /\ form.name = <<"T", "!", "s">>
    /\ form.slug = <<"t", "s">>

\* C23 as claimed: each maximal run of whitespace of the name is one hyphen
\* of the slug, next to the hyphens the name has
C23_AsClaimed ==
    SlugGenerated =>
        HyphenCount(form.slug) =
            HyphenCount(form.name) + WhitespaceRuns(form.name)

\* C23: each maximal run of whitespace of the name as it is after the
\* characters outside [a-z0-9\s-] were removed is one hyphen of the slug,
\* whatever the length of the run, next to the hyphens the name has
C23_WhitespaceRunOneHyphen ==
    SlugGenerated =>
        HyphenCount(form.slug) =
            HyphenCount(form.name)
                + WhitespaceRuns(RemoveOthers(toLowerCase(form.name)))

\* the slug of "T", space, tab is "t-"
C23_Witness ==
    /\ SlugGenerated
    /\ form.name = <<"T", " ", "\t">>
    /\ form.slug = <<"t", "-">>

\* C25: a blur of the name field generates the slug only into an empty slug:
\* with a non-empty name and an empty slug the slug is set from the name,
\* a non-empty slug stays whatever the name is, an empty name changes
\* nothing, and no other field of the form changes
C25_BlurFillsEmptySlugOnly ==
    [][ lastOp' = "handleNameBlur" =>
          /\ form.slug # Str0 => form' = form
          /\ form.name = Str0 => form' = form
          /\ (form.name # Str0 /\ form.slug = Str0) =>
                 /\ WithoutHyphens(form'.slug) = CodeOf(form.name)
                 /\ HyphenCount(form'.slug) =
                        HyphenCount(form.name)
                            + WhitespaceRuns(RemoveOthers(toLowerCase(form.name)))
          /\ [form' EXCEPT !.slug = form.slug] = form
          /\ nextId' = nextId ]_vars

\* the name field was left while the slug held a text that is not the slug
\* of the name: the slug is as it was, next to option groups and variants
C25_Witness ==
    /\ lastOp = "handleNameBlur"
    /\ form.name = <<"T", " ", "s">>
    /\ form.slug = <<"s">>
    /\ form.optionGroups # <<>>
    /\ form.variants # <<>>

----------------------------------------------------------------------------
(* Properties of the submission of the product-creation form *)

\* the ids the remote API gave the options of a form option group
CreatedOptionIds(group) ==
    { ServerId(group.options[o].id) : o \in 1..Len(group.options) }

\* the option ids sent for a variant hold, for the form option group, one id
\* of the created group, the one of the option the variant selects there
OneOptionOf(optionIds, variant, group) ==
    /\ Cardinality({ j \in 1..Len(optionIds) :
                       optionIds[j] \in CreatedOptionIds(group) }) = 1
    /\ \E k \in 1..Len(variant.options) :
          /\ variant.options[k].optionGroupId = group.id
          /\ \E j \in 1..Len(optionIds) :
                optionIds[j] = ServerId(variant.options[k].optionId)

\* C24: every variant sent in CREATE_PRODUCT_VARIANTS carries exactly one
\* created option id of each created option group, the one of the option the
\* variant selects in the form group, also when codes coincide
C24_OneOptionOfEachGroup ==
    (calls # <<>> /\ calls[1].op = "createProductVariants") =>
        \A v \in 1..Len(calls[1].variables.input) :
            /\ Len(calls[1].variables.input[v].optionIds) = Len(form.optionGroups)
            /\ \A g \in 1..Len(form.optionGroups) :
                  OneOptionOf(calls[1].variables.input[v].optionIds,
                              form.variants[v], form.optionGroups[g])

\* the form has option groups and no variant
VariantsMissing == Len(form.optionGroups) > 0 /\ Len(form.variants) = 0

\* C26: the submit of a form with an option group and no variant sends no
\* mutation: it ends with the error toast "Please generate variants before
\* creating the product", on the same page, with loading = false
C26_NoVariantsNoMutation ==
    (lastOp = "onSubmit" /\ VariantsMissing) =>
        /\ sent = <<>>
        /\ calls = <<>>
        /\ toast = Toast("error",
                         "Please generate variants before creating the product")
        /\ route = page
        /\ ~formLoading
        /\ submit = Idle

\* a form with two option groups, options and no variant has been submitted
C26_Witness ==
    /\ lastOp = "onSubmit"
    /\ Len(form.optionGroups) = 2
    /\ \A g \in 1..2 : form.optionGroups[g].options # <<>>
    /\ form.variants = <<>>
    /\ toast.color = "error"

\* the step is the end of a submission that failed after its product was
\* created
FailedAfterCreateProduct ==
    /\ submit.pc # "idle"
    /\ submit.product # <<>>
    /\ response'.by = "onSubmit"
    /\ ~response'.ok

\* C28: a submission that fails after CREATE_PRODUCT has succeeded sends
\* nothing more, no delete of the product either, stays on the page, leaves
\* the form as it is, shows an error toast and ends with loading = false
C28_FailureAfterProductStops ==
    [][ FailedAfterCreateProduct =>
          /\ calls' = <<>>
          /\ sent' = sent
          /\ route' = route /\ route = page
          /\ form' = form
          /\ toast'.color = "error"
          /\ ~formLoading'
          /\ submit' = Idle ]_vars

\* CREATE_PRODUCT_VARIANTS has failed after the product and two option
\* groups were created
C28_Witness ==
    /\ response.by = "onSubmit" /\ ~response.ok
    /\ Len(sent) = 6
    /\ sent[6].op = "createProductVariants"
    /\ calls = <<>>
    /\ toast.color = "error"
    /\ ~formLoading

\* the submission has ended at a variant whose mapped options are fewer than
\* the created option groups
C28_WitnessOptionCount ==
    /\ response.by = "onSubmit" /\ ~response.ok
    /\ response.data = NewError("Variant should have as many options as groups")
    /\ sent # <<>>
    /\ sent[Len(sent)].op = "addOptionGroupToProduct"
    /\ calls = <<>>

----------------------------------------------------------------------------
(* Properties of the draft-order page *)

\* the step has sent a mutation of the given handler
MutationSentBy(handler) ==
    /\ calls' # calls
    /\ Len(calls') = Len(calls) + 1
    /\ calls'[Len(calls')].by = handler

\* the info toast of addItemToOrder
AlreadyInOrderToast == Toast("info", "This item is already in the order")

\* C27: addItemToOrder for a variant that a line of draftOrder holds sends
\* nothing and leaves draftOrder as it is, adding the info toast only; an
\* ADD_ITEM_TO_DRAFT_ORDER mutation is sent only for a variant no line
\* holds, one per call, with quantity 1, for the order mirrored
C27_NoDuplicateLine ==
    [][ /\ toast' = AlreadyInOrderToast =>
              /\ calls' = calls
              /\ draftOrder' = draftOrder
              /\ \E v \in VariantIds : isVariantInOrder(v)
        /\ MutationSentBy("addItemToOrder") =>
              LET sentCall == calls'[Len(calls')] IN
              /\ calls' = Append(calls, sentCall)
              /\ sentCall.op = "addItemToDraftOrder"
              /\ sentCall.variables.orderId = draftOrder.id
              /\ sentCall.variables.input.quantity = 1
              /\ ~isVariantInOrder(sentCall.variables.input.productVariantId)
              /\ draftOrder' = draftOrder
              /\ toast' = NoToast
      ]_vars

\* a variant of the order was clicked: the info toast, nothing sent
C27_Witness ==
    /\ toast = AlreadyInOrderToast
    /\ draftOrder.lines # {}
    /\ calls = <<>>

\* a variant was clicked that no line holds, next to a variant of the order
C27_WitnessSent ==
    /\ Len(calls) = 1
    /\ calls[1].by = "addItemToOrder"
    /\ draftOrder.lines # {}
    /\ ~isVariantInOrder(calls[1].variables.input.productVariantId)

\* C29: while draftOrder has no id the draft-order page sends no mutation
\* but CREATE_DRAFT_ORDER: the handlers of the items, the customer, the
\* addresses and the completion return without a call
C29_NoOrderNoMutation ==
    [][ (page = "/orders/create" /\ draftOrder.id = "" /\ CallIssued) =>
            /\ calls' = Append(calls, calls'[Len(calls')])
            /\ calls'[Len(calls')].by = "initializeDraftOrder"
            /\ calls'[Len(calls')].op = "createDraftOrder" ]_vars

\* the creation of the draft order has failed and a variant was clicked: the
\* error toast of addItemToOrder, nothing sent
C29_Witness ==
    /\ OnOrderPage
    /\ draftOrder.id = ""
    /\ ~orderLoading
    /\ toast = Toast("error", "No draft order available")
    /\ calls = <<>>

----------------------------------------------------------------------------
(* Properties of the loading flag of the products page *)

\* a GET_PRODUCTS list fetch awaits its response
ProductsFetchOutstanding ==
    \E i \in 1..Len(calls) : calls[i].by = "fetchProducts"

\* C30: on the products page loading is true while a list fetch is
\* outstanding, also when the fetch of a page change and the refresh after a
\* deletion overlap
C30_LoadingWhileFetching ==
    (page = "/products" /\ ProductsFetchOutstanding) => listLoading

====
